---- MODULE Spec2Model ----
(***************************************************************************)
(* Model of the two CloudFormation custom-resource handlers of this        *)
(* repository: the ACM validation-DNS handler (getZoneIdByName,             *)
(* getZoneIdByFQDN, publishCertValidationDNS, lookupCertificate,           *)
(* processCREvent) and the SES verify-domain handler (verifyDomain,        *)
(* handler).                                                               *)
(*                                                                         *)
(* Strings are sequences of one-character strings, so that slice, split,   *)
(* endsWith and concatenation are computed as JavaScript computes them.    *)
(***************************************************************************)
EXTENDS Integers, Sequences, FiniteSets, TLC

VARIABLES
  listing,    \* Route53: answer of listHostedZonesByName, by queried name
  nsAnswer,   \* Route53: answer of testDNSAnswer(zone, name, "NS")
  certs,      \* ACM: answer of describeCertificate, by certificate ARN
  nameCall,   \* one direct call of getZoneIdByName
  walks,      \* the running / finished calls of getZoneIdByFQDN
  pub,        \* the current call of publishCertValidationDNS
  batches,    \* Route53: every change batch submitted so far, with its fate
  calls,      \* number of provider calls issued so far, by operation
  poll,       \* the current call of lookupCertificate
  hnd,        \* the handler invocation: event, context, position, response
  sesv        \* the current call of verifyDomain

provider == <<listing, nsAnswer, certs>>
vars == <<listing, nsAnswer, certs, nameCall, walks, pub, batches, calls, poll, hnd, sesv>>

(***************************************************************************)
(* Bounds                                                                  *)
(***************************************************************************)
MaxLabels == 4      \* longest fqdn handed to the resolver, in labels
MaxEntries == 3     \* most validation entries of a described certificate
MaxPages == 2       \* most pages ACM splits one certificate listing into
MaxPolls == 3       \* polling iterations followed when the poll has no budget
MaxBudget == 3      \* largest iteration budget lookupCertificate is called with

(***************************************************************************)
(* Program constants                                                       *)
(***************************************************************************)
NO_MATCH_NAME_ERROR == "Unable to find any matching zones at all given provided domain name"
NO_EXACT_MATCH_NAME_ERROR == "Unable to find an exact matching zone given provided domain name"
ZONE_NOT_DETERMINABLE == "Unable to determine zone id"
HOSTEDZONE_PREFIX == "/hostedzone/"
PROVIDER_ERROR == "ProviderError"
CHANGE_REJECTED == "Unable to process change"
NoError == "none"
UPSERT == "UPSERT"
DELETE == "DELETE"
AMAZON_ISSUED_CERT_TYPE == "AMAZON_ISSUED"
ERR_INVALID_CERTIFICATE == "Invalid Certificate. This custom resource is only for Amazon issued certificates."
PENDING_VALIDATION == "PENDING_VALIDATION"
RECORD_TTL == 60
WAIT_BETWEEN_REQS_MS == 1000
TIMEOUT_MARGIN_OF_SAFETY_MS == 3000
LOOKUP_TIMED_OUT == "Certificate lookup timed out"
INVALID_ITERATIONS == "Option \"iterations\" must be Infinity or an integer greater than 0."
TYPE_ERROR == "TypeError"
INVALID_REQUEST == "Invalid request type or event"
CREATE_REQUEST == "Create"
UPDATE_REQUEST == "Update"
DELETE_REQUEST == "Delete"
DEFAULT_PHYSICAL_RESOURCE_ID == <<"NOIDPROVIDED">>

(***************************************************************************)
(* Provider call counters                                                  *)
(***************************************************************************)
Operations ==
  {"listHostedZonesByName", "testDNSAnswer", "describeCertificate",
   "changeResourceRecordSets", "listCertificates", "getHostedZone",
   "verifyDomainIdentity", "verifyDomainDkim", "deleteIdentity",
   "listCertificates:error"}   \* the listCertificates calls ACM has failed
NoCalls == [op \in Operations |-> 0]
Called(c, op, n) == [c EXCEPT ![op] = @ + n]

(***************************************************************************)
(* JavaScript string primitives                                            *)
(***************************************************************************)
Dot == "."

\* s.endsWith(".")
EndsWithDot(s) == Len(s) > 0 /\ s[Len(s)] = Dot

\* s.slice(0, -1)
SliceDropLast(s) == IF Len(s) = 0 THEN <<>> ELSE SubSeq(s, 1, Len(s) - 1)

RECURSIVE SplitAcc(_, _, _)
SplitAcc(s, cur, acc) ==
  IF s = <<>> THEN Append(acc, cur)
  ELSE IF Head(s) = Dot THEN SplitAcc(Tail(s), <<>>, Append(acc, cur))
  ELSE SplitAcc(Tail(s), Append(cur, Head(s)), acc)

\* s.split("."): "" gives [""], "a." gives ["a", ""]
Split(s) == SplitAcc(s, <<>>, <<>>)

\* array.reverse()
Reverse(q) == [i \in 1..Len(q) |-> q[Len(q) + 1 - i]]

RECURSIVE IndexOfFrom(_, _, _)
IndexOfFrom(s, tok, i) ==
  IF i > Len(s) THEN 0
  ELSE IF s[i] = tok THEN i
  ELSE IndexOfFrom(s, tok, i + 1)

\* s.replace(tok, ""): removes the first occurrence of tok, if there is one
ReplaceFirst(s, tok) ==
  LET i == IndexOfFrom(s, tok, 1)
  IN IF i = 0 THEN s ELSE SubSeq(s, 1, i - 1) \o SubSeq(s, i + 1, Len(s))

(***************************************************************************)
(* Results of an async function: a value or a thrown error                 *)
(***************************************************************************)
Resolved(v) == [ok |-> TRUE, id |-> v, err |-> NoError]
Rejected(e) == [ok |-> FALSE, id |-> <<>>, err |-> e]

(***************************************************************************)
(* Route53 as the code sees it                                             *)
(***************************************************************************)
\* Route53 treats a DNSName with and without the trailing dot alike
StripDot(n) == IF EndsWithDot(n) THEN SliceDropLast(n) ELSE n

NoListing == [defined |-> FALSE, HostedZones |-> <<>>]
Listing(zs) == [defined |-> TRUE, HostedZones |-> zs]

\* route53.listHostedZonesByName({DNSName}): zones from DNSName on, in order
ListHostedZonesByName(DNSName) ==
  IF StripDot(DNSName) \in DOMAIN listing THEN listing[StripDot(DNSName)]
  ELSE Listing(<<>>)

NS_NONE == "none"            \* RecordData is empty
NS_DELEGATED == "delegated"  \* RecordData holds name servers
NS_ERROR == "error"          \* the call fails
NSOutcomes == {NS_NONE, NS_DELEGATED, NS_ERROR}

\* route53.testDNSAnswer({HostedZoneId, RecordName, RecordType: "NS"})
TestDNSAnswer(zoneId, recordName) ==
  IF <<zoneId, recordName>> \in DOMAIN nsAnswer THEN nsAnswer[<<zoneId, recordName>>]
  ELSE NS_ERROR

(***************************************************************************)
(* getZoneIdByName                                                         *)
(***************************************************************************)
\* mutant: the comparison without the trailing period is dropped
NameMatches_DottedOnly(Name, domainName) == Name = domainName

\* the exact-match test on the first listed zone
NameMatches(Name, domainName) ==
  SliceDropLast(Name) = domainName \/ Name = domainName

\* Id.replace("/hostedzone/", "")
StripZonePrefix(Id) == ReplaceFirst(Id, HOSTEDZONE_PREFIX)

\* mutant: an empty listing is reported as an inexact match
GetZoneIdByNameOn_EmptyAsInexact(response, domainName) ==
  IF ~response.defined \/ Len(response.HostedZones) < 1
    THEN Rejected(NO_EXACT_MATCH_NAME_ERROR)
  ELSE LET first == response.HostedZones[1]
       IN IF ~NameMatches(first.Name, domainName)
            THEN Rejected(NO_EXACT_MATCH_NAME_ERROR)
          ELSE Resolved(StripZonePrefix(first.Id))

\* the body of getZoneIdByName after the listing has been awaited
GetZoneIdByNameOn(response, domainName) ==
  IF ~response.defined \/ Len(response.HostedZones) < 1
    THEN Rejected(NO_MATCH_NAME_ERROR)
  ELSE LET first == response.HostedZones[1]
       IN IF ~NameMatches(first.Name, domainName)
            THEN Rejected(NO_EXACT_MATCH_NAME_ERROR)
          ELSE Resolved(StripZonePrefix(first.Id))

GetZoneIdByName(domainName) ==
  GetZoneIdByNameOn(ListHostedZonesByName(domainName), domainName)

(***************************************************************************)
(* getZoneIdByFQDN: one record per call; the two awaits of a loop          *)
(* iteration are the two steps WalkLookup and WalkTest                     *)
(***************************************************************************)
\* mutant: the fqdn is used as given, a trailing period included
NormalizeFQDN_Keep(fqdn) == fqdn

NormalizeFQDN(fqdn) == IF EndsWithDot(fqdn) THEN SliceDropLast(fqdn) ELSE fqdn

\* `${rest[domainNameIndex]}.${domainName}`
NextDomainName(label, domainName) == label \o <<Dot>> \o domainName

\* the call up to its first await: normalise, split, and the loop test
StartWalk(fqdn) ==
  LET normalizedFQDN == NormalizeFQDN(fqdn)
      parts == Reverse(Split(normalizedFQDN))
      rest == Tail(parts)
  IN [fqdn |-> fqdn,
      normalizedFQDN |-> normalizedFQDN,
      rest |-> rest,
      domainNameIndex |-> 0,
      domainName |-> Head(parts),
      zoneId |-> <<>>,
      tested |-> <<>>,
      pc |-> IF Len(rest) > 0 THEN "lookup" ELSE "thrown",
      res |-> IF Len(rest) > 0 THEN Rejected(NoError) ELSE Rejected(ZONE_NOT_DETERMINABLE)]

\* domainName = ...; zoneId = await getZoneIdByName(domainName)
WalkLookupStep(w) ==
  LET dn == NextDomainName(w.rest[w.domainNameIndex + 1], w.domainName)
      r == GetZoneIdByName(dn)
  IN IF r.ok
       THEN [w EXCEPT !.domainName = dn, !.zoneId = r.id, !.pc = "test"]
     ELSE [w EXCEPT !.domainName = dn, !.pc = "thrown", !.res = r]

\* await route53.testDNSAnswer(...); return on empty RecordData, else loop
WalkTestStep(w) ==
  LET ans == TestDNSAnswer(w.zoneId, w.normalizedFQDN)
      t == [w EXCEPT !.tested = Append(@, w.zoneId)]
  IN IF ans = NS_ERROR
       THEN [t EXCEPT !.pc = "thrown", !.res = Rejected(PROVIDER_ERROR)]
     ELSE IF ans = NS_NONE
       THEN [t EXCEPT !.pc = "returned", !.res = Resolved(w.zoneId)]
     ELSE IF w.domainNameIndex + 1 < Len(w.rest)
       THEN [t EXCEPT !.domainNameIndex = @ + 1, !.pc = "lookup"]
     ELSE [t EXCEPT !.domainNameIndex = @ + 1, !.pc = "thrown",
                    !.res = Rejected(ZONE_NOT_DETERMINABLE)]

WalkDone(w) == w.pc \in {"returned", "thrown"}

\* Promise.all(zoneIdLookupPromises) rejects with the first lookup to reject
NoteLookup(p, w) ==
  IF p.pc = "lookups" /\ w.pc = "thrown" /\ p.rejection = NoError
    THEN [p EXCEPT !.rejection = w.res.err]
  ELSE p

WalkLookup(i) ==
  /\ i \in DOMAIN walks
  /\ walks[i].pc = "lookup"
  /\ walks' = [walks EXCEPT ![i] = WalkLookupStep(walks[i])]
  /\ pub' = NoteLookup(pub, WalkLookupStep(walks[i]))
  /\ calls' = Called(calls, "listHostedZonesByName", 1)
  /\ UNCHANGED <<provider, nameCall, batches, poll, hnd, sesv>>

WalkTest(i) ==
  /\ i \in DOMAIN walks
  /\ walks[i].pc = "test"
  /\ walks' = [walks EXCEPT ![i] = WalkTestStep(walks[i])]
  /\ pub' = NoteLookup(pub, WalkTestStep(walks[i]))
  /\ calls' = Called(calls, "testDNSAnswer", 1)
  /\ UNCHANGED <<provider, nameCall, batches, poll, hnd, sesv>>

(***************************************************************************)
(* publishCertValidationDNS                                                *)
(***************************************************************************)
Null == [isNull |-> TRUE, Id |-> 0]
ChangeId(k) == [isNull |-> FALSE, Id |-> k]

PubResolved(ids) == [ok |-> TRUE, ids |-> ids, err |-> NoError]
PubRejected(e) == [ok |-> FALSE, ids |-> <<>>, err |-> e]

IdlePub ==
  [pc |-> "idle", certificateArn |-> <<>>, action |-> "none",
   resourceRecords |-> <<>>, first |-> 0, count |-> 0,
   rejection |-> NoError, res |-> PubRejected(NoError)]

\* the call up to its first await
StartPub(certificateArn, action) ==
  [IdlePub EXCEPT !.pc = "describe", !.certificateArn = certificateArn,
                  !.action = action]

\* acm.describeCertificate({CertificateArn})
DescribeCertificate(certificateArn) ==
  IF certificateArn \in DOMAIN certs THEN certs[certificateArn]
  ELSE [ok |-> FALSE, Type |-> "none", DomainValidationOptions |-> <<>>]

IsPending(validationOption) == validationOption.ValidationStatus = PENDING_VALIDATION

\* the validation entries the first loop keeps
PendingOptions(options) == SelectSeq(options, IsPending)

RECURSIVE FirstThrown(_, _)
\* the error of the first lookup that is already rejected when it is joined
FirstThrown(ws, i) ==
  IF i > Len(ws) THEN NoError
  ELSE IF ws[i].pc = "thrown" THEN ws[i].res.err
  ELSE FirstThrown(ws, i + 1)

\* mutant: the certificate type is not checked
PubDescribe_AnyType ==
  /\ pub.pc = "describe"
  /\ calls' = Called(calls, "describeCertificate", 1)
  /\ LET c == DescribeCertificate(pub.certificateArn)
         pending == PendingOptions(c.DomainValidationOptions)
         started == [i \in 1..Len(pending) |-> StartWalk(pending[i].DomainName)]
     IN IF ~c.ok
          THEN /\ pub' = [pub EXCEPT !.pc = "thrown", !.res = PubRejected(PROVIDER_ERROR)]
               /\ UNCHANGED walks
        ELSE /\ pub' = [pub EXCEPT
                          !.pc = "lookups",
                          !.resourceRecords =
                             [i \in 1..Len(pending) |-> pending[i].ResourceRecord],
                          !.rejection = FirstThrown(started, 1)]
             /\ walks' = started
  /\ UNCHANGED <<provider, nameCall, batches, poll, hnd, sesv>>

\* await acm.describeCertificate, the type check and the first loop, which
\* starts one getZoneIdByFQDN per pending validation entry
PubDescribe ==
  /\ pub.pc = "describe"
  /\ calls' = Called(calls, "describeCertificate", 1)
  /\ LET c == DescribeCertificate(pub.certificateArn)
         pending == PendingOptions(c.DomainValidationOptions)
         started == [i \in 1..Len(pending) |-> StartWalk(pending[i].DomainName)]
     IN IF ~c.ok
          THEN /\ pub' = [pub EXCEPT !.pc = "thrown", !.res = PubRejected(PROVIDER_ERROR)]
               /\ UNCHANGED walks
        ELSE IF c.Type # AMAZON_ISSUED_CERT_TYPE
          THEN /\ pub' = [pub EXCEPT !.pc = "thrown",
                                     !.res = PubRejected(ERR_INVALID_CERTIFICATE)]
               /\ UNCHANGED walks
        ELSE /\ pub' = [pub EXCEPT
                          !.pc = "lookups",
                          !.resourceRecords =
                             [i \in 1..Len(pending) |-> pending[i].ResourceRecord],
                          !.rejection = FirstThrown(started, 1)]
             /\ walks' = started
  /\ UNCHANGED <<provider, nameCall, batches, poll, hnd, sesv>>

RECURSIVE KeysAcc(_, _)
\* Object.keys(Changes): the zone ids in order of first insertion
KeysAcc(zoneIds, acc) ==
  IF zoneIds = <<>> THEN acc
  ELSE IF Head(zoneIds) \in {acc[i] : i \in DOMAIN acc}
    THEN KeysAcc(Tail(zoneIds), acc)
  ELSE KeysAcc(Tail(zoneIds), Append(acc, Head(zoneIds)))
\* mutant: the zone ids in order of their last appearance
ZoneKeys_ByLastAppearance(zoneIds) == Reverse(KeysAcc(Reverse(zoneIds), <<>>))

ZoneKeys(zoneIds) == KeysAcc(zoneIds, <<>>)

Change(action, rr) ==
  [Action |-> action,
   ResourceRecordSet |->
     [Name |-> rr.Name, ResourceRecords |-> <<[Value |-> rr.Value]>>,
      TTL |-> RECORD_TTL, Type |-> rr.Type]]

\* mutant: a change is put in front of the zone's earlier changes
RECURSIVE ChangesOf_Unshift(_, _, _, _)
ChangesOf_Unshift(zoneId, zoneIds, records, action) ==
  IF zoneIds = <<>> THEN <<>>
  ELSE IF Head(zoneIds) = zoneId
    THEN ChangesOf_Unshift(zoneId, Tail(zoneIds), Tail(records), action)
           \o <<Change(action, Head(records))>>
  ELSE ChangesOf_Unshift(zoneId, Tail(zoneIds), Tail(records), action)

RECURSIVE ChangesOf(_, _, _, _)
\* Changes[zoneId]: the changes pushed for zoneId by the second loop, in order
ChangesOf(zoneId, zoneIds, records, action) ==
  IF zoneIds = <<>> THEN <<>>
  ELSE IF Head(zoneIds) = zoneId
    THEN <<Change(action, Head(records))>>
           \o ChangesOf(zoneId, Tail(zoneIds), Tail(records), action)
  ELSE ChangesOf(zoneId, Tail(zoneIds), Tail(records), action)

\* the requests of the third loop, one per key of Changes
NewBatches(p, zoneIds) ==
  LET keys == ZoneKeys(zoneIds)
  IN [k \in 1..Len(keys) |->
        [HostedZoneId |-> keys[k],
         Changes |-> ChangesOf(keys[k], zoneIds, p.resourceRecords, p.action),
         Comment |-> p.certificateArn,
         status |-> "inflight"]]

\* mutant: the batches are sent as soon as one lookup has returned
PubJoin_NoBarrier ==
  /\ pub.pc = "lookups"
  /\ IF pub.rejection # NoError
       THEN /\ pub' = [pub EXCEPT !.pc = "thrown", !.res = PubRejected(pub.rejection)]
            /\ UNCHANGED <<batches, calls>>
     ELSE /\ \E i \in DOMAIN walks : walks[i].pc = "returned"
          /\ LET new == NewBatches(pub, [i \in DOMAIN walks |-> walks[i].res.id])
             IN /\ batches' = batches \o new
                /\ pub' = [pub EXCEPT !.pc = "publishing", !.first = Len(batches) + 1,
                                      !.count = Len(new)]
                /\ calls' = Called(calls, "changeResourceRecordSets", Len(new))
  /\ UNCHANGED <<provider, nameCall, walks, poll, hnd, sesv>>

\* await Promise.all(zoneIdLookupPromises), then the grouping loop and the
\* loop that sends one changeResourceRecordSets request per zone
PubJoin ==
  /\ pub.pc = "lookups"
  /\ IF pub.rejection # NoError
       THEN /\ pub' = [pub EXCEPT !.pc = "thrown", !.res = PubRejected(pub.rejection)]
            /\ UNCHANGED <<batches, calls>>
     ELSE /\ \A i \in DOMAIN walks : walks[i].pc = "returned"
          /\ LET new == NewBatches(pub, [i \in DOMAIN walks |-> walks[i].res.id])
             IN /\ batches' = batches \o new
                /\ pub' = [pub EXCEPT !.pc = "publishing", !.first = Len(batches) + 1,
                                      !.count = Len(new)]
                /\ calls' = Called(calls, "changeResourceRecordSets", Len(new))
  /\ UNCHANGED <<provider, nameCall, walks, poll, hnd, sesv>>

OwnBatches(p) == p.first..(p.first + p.count - 1)

\* mutant: no publish promise gets the catch
Swallows_Never(action) == FALSE
\* mutant: every publish promise gets the catch
Swallows_Always(action) == TRUE

\* action === DELETE ? publishPromises.map(promise.catch(() => null)) : publishPromises
Swallows(action) == action = DELETE

\* the promise of change batch k settles: Promise.all over the publish
\* promises notes the first rejection that is not caught
SettleAs(k, outcome) ==
  /\ k \in DOMAIN batches
  /\ batches[k].status = "inflight"
  /\ batches' = [batches EXCEPT ![k].status = outcome]
  /\ pub' = IF /\ outcome = "rejected"
               /\ pub.pc = "publishing"
               /\ k \in OwnBatches(pub)
               /\ ~Swallows(pub.action)
               /\ pub.rejection = NoError
              THEN [pub EXCEPT !.rejection = CHANGE_REJECTED]
            ELSE pub
  /\ UNCHANGED <<provider, nameCall, walks, calls, poll, hnd, sesv>>

\* Route53 answers one change batch: applied, or rejected as a whole
BatchSettle(k) == \E outcome \in {"ok", "rejected"} : SettleAs(k, outcome)

(***************************************************************************)
(* Route53's record sets: a batch is applied as a whole, and a batch that  *)
(* deletes a record set the zone does not hold is rejected as a whole      *)
(***************************************************************************)
RecordSetOf(zoneId, change) ==
  [zone |-> zoneId, name |-> StripDot(change.ResourceRecordSet.Name),
   type |-> change.ResourceRecordSet.Type,
   value |-> change.ResourceRecordSet.ResourceRecords[1].Value]

SameRecordSet(r, q) == r.zone = q.zone /\ r.name = q.name /\ r.type = q.type

RECURSIVE ApplyChanges(_, _, _)
\* the record sets after the changes of one accepted batch, in order
ApplyChanges(store, zoneId, changes) ==
  IF changes = <<>> THEN store
  ELSE LET r == RecordSetOf(zoneId, Head(changes))
           others == {q \in store : ~SameRecordSet(r, q)}
       IN ApplyChanges(IF Head(changes).Action = DELETE THEN others ELSE others \cup {r},
                       zoneId, Tail(changes))

RECURSIVE RecordSetsAfter(_)
\* the record sets published once the first n batches have been answered
RecordSetsAfter(n) ==
  IF n = 0 THEN {}
  ELSE IF batches[n].status = "ok"
    THEN ApplyChanges(RecordSetsAfter(n - 1), batches[n].HostedZoneId, batches[n].Changes)
  ELSE RecordSetsAfter(n - 1)

\* a DELETE change must name a record set that exists with that very value
Route53Accepts(store, b) ==
  \A c \in DOMAIN b.Changes :
    b.Changes[c].Action = DELETE => RecordSetOf(b.HostedZoneId, b.Changes[c]) \in store

\* Route53 answers change batch k by the record sets it holds
RecordSettle(k) ==
  /\ k \in DOMAIN batches
  /\ \A j \in 1..(k - 1) : batches[j].status # "inflight"
  /\ SettleAs(k, IF Route53Accepts(RecordSetsAfter(k - 1), batches[k]) THEN "ok"
                 ELSE "rejected")

\* results.map(...): null for a swallowed rejection, else result.ChangeInfo.Id
ResultOf(p) ==
  [i \in 1..p.count |->
     IF batches[p.first + i - 1].status = "ok" THEN ChangeId(p.first + i - 1)
     ELSE Null]

\* await Promise.all(...) over the publish promises, and the return
PubReturn ==
  /\ pub.pc = "publishing"
  /\ IF Swallows(pub.action)
       THEN /\ \A k \in OwnBatches(pub) : batches[k].status # "inflight"
            /\ pub' = [pub EXCEPT !.pc = "returned", !.res = PubResolved(ResultOf(pub))]
     ELSE IF pub.rejection # NoError
       THEN pub' = [pub EXCEPT !.pc = "thrown", !.res = PubRejected(pub.rejection)]
     ELSE /\ \A k \in OwnBatches(pub) : batches[k].status = "ok"
          /\ pub' = [pub EXCEPT !.pc = "returned", !.res = PubResolved(ResultOf(pub))]
  /\ UNCHANGED <<provider, nameCall, walks, batches, calls, poll, hnd, sesv>>

PubDone(p) == p.pc \in {"returned", "thrown"}

(***************************************************************************)
(* lookupCertificate: interval() calls lookupCertificateInternal once per  *)
(* iteration; PollFetch is one awaited listCertificates page               *)
(***************************************************************************)
LookupResolved(arn) == [ok |-> TRUE, arn |-> arn, err |-> NoError]
LookupRejected(e) == [ok |-> FALSE, arn |-> <<>>, err |-> e]

IdlePoll ==
  [pc |-> "idle", domainName |-> <<>>, capped |-> FALSE, iterations |-> 0,
   iteration |-> 0, pages |-> 0, listings |-> 0, certs |-> <<>>,
   res |-> LookupRejected(NoError)]

\* Math.floor(timeoutMs / WAIT_BETWEEN_REQS_MS)
Iterations(timeoutMs) == timeoutMs \div WAIT_BETWEEN_REQS_MS

\* the call up to the first timer of interval(): the iteration budget is set
\* only for a truthy timeoutMs, and interval() refuses a budget below 1
StartPoll(domainName, timeoutMs) ==
  IF timeoutMs # 0 /\ Iterations(timeoutMs) < 1
    THEN [IdlePoll EXCEPT !.pc = "thrown", !.domainName = domainName,
                          !.capped = TRUE, !.iterations = Iterations(timeoutMs),
                          !.res = LookupRejected(INVALID_ITERATIONS)]
  ELSE [IdlePoll EXCEPT !.pc = "fetch", !.domainName = domainName,
                        !.capped = (timeoutMs # 0),
                        !.iterations = IF timeoutMs # 0 THEN Iterations(timeoutMs) ELSE 0,
                        !.iteration = 1]

\* mutant: the last entry for the name is taken instead of the first
RECURSIVE Find_Last(_, _)
Find_Last(cs, domainName) ==
  IF cs = <<>> THEN <<>>
  ELSE IF Find_Last(Tail(cs), domainName) # <<>> THEN Find_Last(Tail(cs), domainName)
  ELSE IF Head(cs).DomainName = domainName THEN <<Head(cs)>>
  ELSE <<>>

RECURSIVE Find(_, _)
\* certs.find(cert => cert.DomainName === domainName): <<>> for undefined
Find(cs, domainName) ==
  IF cs = <<>> THEN <<>>
  ELSE IF Head(cs).DomainName = domainName THEN <<Head(cs)>>
  ELSE Find(Tail(cs), domainName)

\* the end of lookupCertificateInternal and the callNext of interval()
AfterListing(q, cs) ==
  LET found == Find(cs, q.domainName)
      listed == [q EXCEPT !.certs = cs, !.pages = @ + 1, !.listings = @ + 1]
  IN IF found # <<>> /\ found[1].CertificateArn # <<>>
       THEN [listed EXCEPT !.pc = "returned",
                           !.res = LookupResolved(found[1].CertificateArn)]
     ELSE IF q.capped /\ q.iteration = q.iterations
       THEN [listed EXCEPT !.pc = "thrown", !.res = LookupRejected(LOOKUP_TIMED_OUT)]
     ELSE [listed EXCEPT !.iteration = @ + 1, !.pages = 0]

\* mutant: the accumulator is kept from one iteration to the next
CertsSoFar_Kept(q) == q.certs

\* let certs = [] at the start of lookupCertificateInternal: the first page
\* of an iteration is added to an empty list
CertsSoFar(q) == IF q.pages = 0 THEN <<>> ELSE q.certs

\* mutant: a failed page fetch is taken for an empty last page
PollStep_MasksError(q, failed, page, more) ==
  IF failed THEN AfterListing(q, CertsSoFar(q))
  ELSE IF more
    THEN [q EXCEPT !.certs = CertsSoFar(q) \o page, !.pages = @ + 1]
  ELSE AfterListing(q, CertsSoFar(q) \o page)

\* one acm.listCertificates call and what follows it up to the next await
PollStep(q, failed, page, more) ==
  IF failed
    THEN [q EXCEPT !.pc = "thrown", !.pages = @ + 1, !.certs = CertsSoFar(q),
                   !.res = LookupRejected(PROVIDER_ERROR)]
  ELSE IF more
    THEN [q EXCEPT !.certs = CertsSoFar(q) \o page, !.pages = @ + 1]
  ELSE AfterListing(q, CertsSoFar(q) \o page)

PollFetch(failed, page, more) ==
  /\ poll.pc = "fetch"
  /\ poll.capped \/ poll.iteration <= MaxPolls
  /\ more => poll.pages + 1 < MaxPages
  /\ poll' = PollStep(poll, failed, page, more)
  /\ calls' = Called(Called(calls, "listCertificates", 1),
                     "listCertificates:error", IF failed THEN 1 ELSE 0)
  /\ UNCHANGED <<provider, nameCall, walks, pub, batches, hnd, sesv>>

PollDone(q) == q.pc \in {"returned", "thrown"}

(***************************************************************************)
(* The lifecycle event and the response sent to CloudFormation             *)
(***************************************************************************)
NoProperties ==
  [present |-> FALSE, CertificateFQDN |-> <<>>, HostedZoneId |-> <<>>,
   HostedZoneName |-> <<>>]
CertProperties(fqdn) == [NoProperties EXCEPT !.present = TRUE, !.CertificateFQDN = fqdn]
ZoneIdProperties(id) == [NoProperties EXCEPT !.present = TRUE, !.HostedZoneId = id]
ZoneNameProperties(n) == [NoProperties EXCEPT !.present = TRUE, !.HostedZoneName = n]

NoData ==
  [isNull |-> TRUE, changeIds |-> <<>>, oldChangeIds |-> <<>>,
   oldCertificateArn |-> <<>>, changeId |-> Null, newChangeId |-> Null,
   oldChangeId |-> Null, oldDomainName |-> <<>>]
NoResponse == [kind |-> "none", id |-> <<>>, data |-> NoData, err |-> NoError]

\* cfnCR.sendSuccess(id, data, event)
SendSuccess(id, data) == [kind |-> "success", id |-> id, data |-> data, err |-> NoError]
\* mutant: sendFailure reports a fixed error instead of the one it is given
SendFailure_Generic(err) ==
  [kind |-> "failure", id |-> <<>>, data |-> NoData, err |-> INVALID_REQUEST]

\* cfnCR.sendFailure(err, event)
SendFailure(err) == [kind |-> "failure", id |-> <<>>, data |-> NoData, err |-> err]

IdleEvent ==
  [RequestType |-> "none", PhysicalResourceId |-> <<>>,
   ResourceProperties |-> NoProperties, OldResourceProperties |-> NoProperties]

IdleHandler ==
  [kind |-> "none", pc |-> "idle", event |-> IdleEvent, remaining |-> 0,
   certificateArn |-> <<>>, oldCertificateArn |-> <<>>, oldChangeIds |-> <<>>,
   oldDomainName |-> <<>>, oldChangeId |-> Null,
   response |-> NoResponse,
   invocation |-> 1, firstResponse |-> NoResponse, firstBatches |-> 0]

Responded(h, r) == [h EXCEPT !.pc = "done", !.response = r]

(***************************************************************************)
(* The certificate handler: processCREvent and userHandlerLogic            *)
(***************************************************************************)
\* mutant: the catch block reports every error as failure
AcmCatch_AlwaysFailure(h, err) == Responded(h, SendFailure(err))

\* the catch block of processCREvent
AcmCatch(h, err) ==
  IF /\ h.event.RequestType = DELETE_REQUEST
     /\ h.event.PhysicalResourceId = DEFAULT_PHYSICAL_RESOURCE_ID
    THEN Responded(h, SendSuccess(h.event.PhysicalResourceId, NoData))
  ELSE Responded(h, SendFailure(err))

\* context.getRemainingTimeInMillis() - TIMEOUT_MARGIN_OF_SAFETY_MS
LambdaTimeout(h) == h.remaining - TIMEOUT_MARGIN_OF_SAFETY_MS

\* processCREvent up to the first await of userHandlerLogic
AcmStart ==
  /\ hnd.kind = "acm" /\ hnd.pc = "start"
  /\ IF ~hnd.event.ResourceProperties.present
       THEN /\ hnd' = AcmCatch(hnd, TYPE_ERROR)
            /\ UNCHANGED poll
     ELSE /\ poll' = StartPoll(hnd.event.ResourceProperties.CertificateFQDN,
                               LambdaTimeout(hnd))
          /\ hnd' = [hnd EXCEPT !.pc = "lookup"]
  /\ UNCHANGED <<provider, nameCall, walks, pub, batches, calls, sesv>>

\* the lookup of the new certificate has settled: the method of the event's
\* RequestType is called and runs up to its first await
AcmLookedUp ==
  /\ hnd.kind = "acm" /\ hnd.pc = "lookup"
  /\ PollDone(poll)
  /\ IF ~poll.res.ok
       THEN /\ hnd' = AcmCatch(hnd, poll.res.err)
            /\ UNCHANGED <<poll, pub>>
     ELSE LET h == [hnd EXCEPT !.certificateArn = poll.res.arn]
          IN IF h.event.RequestType = CREATE_REQUEST
               THEN /\ pub' = StartPub(poll.res.arn, UPSERT)
                    /\ hnd' = [h EXCEPT !.pc = "publish"]
                    /\ UNCHANGED poll
             ELSE IF h.event.RequestType = DELETE_REQUEST
               THEN /\ pub' = StartPub(poll.res.arn, DELETE)
                    /\ hnd' = [h EXCEPT !.pc = "publish"]
                    /\ UNCHANGED poll
             ELSE IF h.event.RequestType = UPDATE_REQUEST
               THEN IF ~h.event.OldResourceProperties.present
                      THEN /\ hnd' = AcmCatch(h, TYPE_ERROR)
                           /\ UNCHANGED <<poll, pub>>
                    ELSE /\ poll' = StartPoll(h.event.OldResourceProperties.CertificateFQDN,
                                              LambdaTimeout(h))
                         /\ hnd' = [h EXCEPT !.pc = "lookupOld"]
                         /\ UNCHANGED pub
             ELSE /\ hnd' = AcmCatch(h, TYPE_ERROR)
                  /\ UNCHANGED <<poll, pub>>
  /\ UNCHANGED <<provider, nameCall, walks, batches, calls, sesv>>

\* update: the lookup of the old certificate has settled
AcmOldLookedUp ==
  /\ hnd.kind = "acm" /\ hnd.pc = "lookupOld"
  /\ PollDone(poll)
  /\ IF ~poll.res.ok
       THEN /\ hnd' = AcmCatch(hnd, poll.res.err)
            /\ UNCHANGED pub
     ELSE /\ pub' = StartPub(poll.res.arn, DELETE)
          /\ hnd' = [hnd EXCEPT !.pc = "publishOld", !.oldCertificateArn = poll.res.arn]
  /\ UNCHANGED <<provider, nameCall, walks, batches, calls, poll, sesv>>

\* mutant: the UPSERT publish is started without awaiting the DELETE publish
AcmOldPublished_NotAwaited ==
  /\ hnd.kind = "acm" /\ hnd.pc = "publishOld"
  /\ pub.pc = "publishing" \/ PubDone(pub)
  /\ IF pub.pc = "thrown"
       THEN /\ hnd' = AcmCatch(hnd, pub.res.err)
            /\ UNCHANGED pub
     ELSE /\ pub' = StartPub(hnd.certificateArn, UPSERT)
          /\ hnd' = [hnd EXCEPT !.pc = "publish", !.oldChangeIds = pub.res.ids]
  /\ UNCHANGED <<provider, nameCall, walks, batches, calls, poll, sesv>>

\* update: the DELETE publish for the old certificate has settled
AcmOldPublished ==
  /\ hnd.kind = "acm" /\ hnd.pc = "publishOld"
  /\ PubDone(pub)
  /\ IF ~pub.res.ok
       THEN /\ hnd' = AcmCatch(hnd, pub.res.err)
            /\ UNCHANGED pub
     ELSE /\ pub' = StartPub(hnd.certificateArn, UPSERT)
          /\ hnd' = [hnd EXCEPT !.pc = "publish", !.oldChangeIds = pub.res.ids]
  /\ UNCHANGED <<provider, nameCall, walks, batches, calls, poll, sesv>>

\* mutant: Create returns the event's PhysicalResourceId as id
AcmOutcome_EventId(h, changeIds) ==
  SendSuccess(h.event.PhysicalResourceId,
              [NoData EXCEPT !.isNull = FALSE, !.changeIds = changeIds])

\* the {id, data} each method returns
AcmOutcome(h, changeIds) ==
  IF h.event.RequestType = CREATE_REQUEST
    THEN SendSuccess(h.certificateArn,
                     [NoData EXCEPT !.isNull = FALSE, !.changeIds = changeIds])
  ELSE IF h.event.RequestType = UPDATE_REQUEST
    THEN SendSuccess(h.certificateArn,
                     [NoData EXCEPT !.isNull = FALSE, !.changeIds = changeIds,
                                    !.oldChangeIds = h.oldChangeIds,
                                    !.oldCertificateArn = h.event.PhysicalResourceId])
  ELSE SendSuccess(h.event.PhysicalResourceId,
                   [NoData EXCEPT !.isNull = FALSE, !.changeIds = changeIds])

\* the last publish of the method has settled: sendSuccess, or the catch
AcmPublished ==
  /\ hnd.kind = "acm" /\ hnd.pc = "publish"
  /\ PubDone(pub)
  /\ hnd' = IF pub.res.ok THEN Responded(hnd, AcmOutcome(hnd, pub.res.ids))
            ELSE AcmCatch(hnd, pub.res.err)
  /\ UNCHANGED <<provider, nameCall, walks, pub, batches, calls, poll, sesv>>

(***************************************************************************)
(* verifyDomain                                                            *)
(***************************************************************************)
VerifyResolved(domainName, changeId) ==
  [ok |-> TRUE, domainName |-> domainName, changeId |-> changeId, err |-> NoError]
VerifyRejected(e) == [ok |-> FALSE, domainName |-> <<>>, changeId |-> Null, err |-> e]

IdleVerify ==
  [pc |-> "idle", hostedZoneIdOrName |-> <<>>, action |-> "none",
   hostedZoneId |-> <<>>, domainName |-> <<>>, identity |-> "none",
   dkim |-> "none", rejection |-> NoError, batch |-> 0,
   res |-> VerifyRejected(NoError)]

\* the call up to its first await: split() of an undefined argument throws
StartVerify(hostedZoneIdOrName, action) ==
  IF hostedZoneIdOrName = <<>>
    THEN [IdleVerify EXCEPT !.pc = "thrown", !.action = action,
                            !.res = VerifyRejected(TYPE_ERROR)]
  ELSE [IdleVerify EXCEPT !.pc = "resolve", !.action = action,
                          !.hostedZoneIdOrName = hostedZoneIdOrName]

SES_VERIFY_HOST == <<"_amazonses">>
DKIM_HOST == <<"_domainkey">>
SES_VERIFY_DKIM == <<"dkim.amazonses.com">>
VerificationToken == <<"vt">>
DkimTokens == <<<<"k1">>, <<"k2">>, <<"k3">>>>

\* route53.getHostedZone({Id}).HostedZone.Name; <<>> when the call fails
HostedZoneName(id) ==
  LET ns == {n \in DOMAIN listing :
               /\ listing[n].defined
               /\ Len(listing[n].HostedZones) >= 1
               /\ listing[n].HostedZones[1].Id = <<HOSTEDZONE_PREFIX>> \o id}
  IN IF ns = {} THEN <<>> ELSE listing[CHOOSE n \in ns : TRUE].HostedZones[1].Name

\* mutant: the verification token is published without the quotes
VerifyChanges_Unquoted(v) ==
  <<[Action |-> v.action,
     ResourceRecordSet |->
       [Name |-> SES_VERIFY_HOST \o <<Dot>> \o v.domainName,
        ResourceRecords |-> <<[Value |-> VerificationToken]>>,
        TTL |-> RECORD_TTL, Type |-> "TXT"]]>>
  \o [i \in 1..Len(DkimTokens) |->
        [Action |-> v.action,
         ResourceRecordSet |->
           [Name |-> DkimTokens[i] \o <<Dot>> \o DKIM_HOST \o <<Dot>> \o v.domainName,
            ResourceRecords |-> <<[Value |-> DkimTokens[i] \o <<Dot>> \o SES_VERIFY_DKIM]>>,
            TTL |-> RECORD_TTL, Type |-> "CNAME"]]]

\* the r53Changes array; the routing attributes of the TXT record set
\* (MultiValueAnswer, SetIdentifier) are left out, nothing reads them
VerifyChanges(v) ==
  <<[Action |-> v.action,
     ResourceRecordSet |->
       [Name |-> SES_VERIFY_HOST \o <<Dot>> \o v.domainName,
        ResourceRecords |-> <<[Value |-> <<"\"">> \o VerificationToken \o <<"\"">>]>>,
        TTL |-> RECORD_TTL, Type |-> "TXT"]]>>
  \o [i \in 1..Len(DkimTokens) |->
        [Action |-> v.action,
         ResourceRecordSet |->
           [Name |-> DkimTokens[i] \o <<Dot>> \o DKIM_HOST \o <<Dot>> \o v.domainName,
            ResourceRecords |-> <<[Value |-> DkimTokens[i] \o <<Dot>> \o SES_VERIFY_DKIM]>>,
            TTL |-> RECORD_TTL, Type |-> "CNAME"]]]

VerifyBatch(v) ==
  [HostedZoneId |-> v.hostedZoneId, Changes |-> VerifyChanges(v),
   Comment |-> <<"Records to verify domain ownership and DKIM for SES send/receive">>,
   status |-> "inflight"]

\* hostedZoneId and domainName are awaited, then both SES calls are started
VerifyResolve ==
  /\ sesv.pc = "resolve"
  /\ IF Len(Split(sesv.hostedZoneIdOrName)) = 1
       THEN /\ calls' = Called(Called(Called(calls, "getHostedZone", 1),
                                       "verifyDomainIdentity",
                                       IF HostedZoneName(sesv.hostedZoneIdOrName) = <<>> THEN 0 ELSE 1),
                                "verifyDomainDkim",
                                IF HostedZoneName(sesv.hostedZoneIdOrName) = <<>> THEN 0 ELSE 1)
            /\ sesv' = IF HostedZoneName(sesv.hostedZoneIdOrName) = <<>>
                         THEN [sesv EXCEPT !.pc = "thrown",
                                           !.res = VerifyRejected(PROVIDER_ERROR)]
                       ELSE [sesv EXCEPT !.pc = "verifying",
                                         !.hostedZoneId = sesv.hostedZoneIdOrName,
                                         !.domainName = HostedZoneName(sesv.hostedZoneIdOrName),
                                         !.identity = "pending", !.dkim = "pending"]
     ELSE LET r == GetZoneIdByName(sesv.hostedZoneIdOrName)
          IN /\ calls' = Called(Called(Called(calls, "listHostedZonesByName", 1),
                                        "verifyDomainIdentity", IF r.ok THEN 1 ELSE 0),
                                 "verifyDomainDkim", IF r.ok THEN 1 ELSE 0)
             /\ sesv' = IF ~r.ok
                          THEN [sesv EXCEPT !.pc = "thrown", !.res = VerifyRejected(r.err)]
                        ELSE [sesv EXCEPT !.pc = "verifying", !.hostedZoneId = r.id,
                                          !.domainName = sesv.hostedZoneIdOrName,
                                          !.identity = "pending", !.dkim = "pending"]
  /\ UNCHANGED <<provider, nameCall, walks, pub, batches, poll, hnd>>

\* Promise.all([domainIDPromise, domainDkimPromise]) rejects with the first
NoteVerify(v, ok) ==
  IF ~ok /\ v.rejection = NoError THEN [v EXCEPT !.rejection = PROVIDER_ERROR] ELSE v

\* ses.verifyDomainIdentity answers, with the token or with an error
IdentityAnswers(ok) ==
  /\ sesv.identity = "pending"
  /\ sesv' = NoteVerify([sesv EXCEPT !.identity = IF ok THEN "ok" ELSE "failed"], ok)
  /\ UNCHANGED <<provider, nameCall, walks, pub, batches, calls, poll, hnd>>

VerifyIdentityAnswer == \E ok \in BOOLEAN : IdentityAnswers(ok)

\* ses.verifyDomainDkim answers, with the tokens or with an error
DkimAnswers(ok) ==
  /\ sesv.dkim = "pending"
  /\ sesv' = NoteVerify([sesv EXCEPT !.dkim = IF ok THEN "ok" ELSE "failed"], ok)
  /\ UNCHANGED <<provider, nameCall, walks, pub, batches, calls, poll, hnd>>

VerifyDkimAnswer == \E ok \in BOOLEAN : DkimAnswers(ok)

\* the batch is built and changeResourceRecordSets is called
VerifySubmitted(v) == [v EXCEPT !.pc = "publishing", !.batch = Len(batches) + 1]

\* await Promise.all(...) of the two SES calls; on DELETE deleteIdentity is
\* called next, otherwise the change batch is submitted
VerifyJoin ==
  /\ sesv.pc = "verifying"
  /\ IF sesv.rejection # NoError
       THEN /\ sesv' = [sesv EXCEPT !.pc = "thrown", !.res = VerifyRejected(sesv.rejection)]
            /\ UNCHANGED <<batches, calls>>
     ELSE /\ sesv.identity = "ok" /\ sesv.dkim = "ok"
          /\ IF sesv.action = DELETE
               THEN /\ sesv' = [sesv EXCEPT !.pc = "revoking"]
                    /\ calls' = Called(calls, "deleteIdentity", 1)
                    /\ UNCHANGED batches
             ELSE /\ sesv' = VerifySubmitted(sesv)
                  /\ batches' = Append(batches, VerifyBatch(sesv))
                  /\ calls' = Called(calls, "changeResourceRecordSets", 1)
  /\ UNCHANGED <<provider, nameCall, walks, pub, poll, hnd>>

\* await ses.deleteIdentity(...), then the change batch is submitted
IdentityDeleted(ok) ==
  /\ sesv.pc = "revoking"
  /\ IF ok
       THEN /\ sesv' = VerifySubmitted(sesv)
            /\ batches' = Append(batches, VerifyBatch(sesv))
            /\ calls' = Called(calls, "changeResourceRecordSets", 1)
     ELSE /\ sesv' = [sesv EXCEPT !.pc = "thrown", !.res = VerifyRejected(PROVIDER_ERROR)]
          /\ UNCHANGED <<batches, calls>>
  /\ UNCHANGED <<provider, nameCall, walks, pub, poll, hnd>>

VerifyRevoked == \E ok \in BOOLEAN : IdentityDeleted(ok)

\* await route53.changeResourceRecordSets(...), and the return
VerifyReturn ==
  /\ sesv.pc = "publishing"
  /\ batches[sesv.batch].status # "inflight"
  /\ sesv' = IF batches[sesv.batch].status = "ok"
               THEN [sesv EXCEPT !.pc = "returned",
                                 !.res = VerifyResolved(sesv.domainName, ChangeId(sesv.batch))]
             ELSE [sesv EXCEPT !.pc = "thrown", !.res = VerifyRejected(CHANGE_REJECTED)]
  /\ UNCHANGED <<provider, nameCall, walks, pub, batches, calls, poll, hnd>>

VerifyDone(v) == v.pc \in {"returned", "thrown"}

(***************************************************************************)
(* The email-domain handler                                                *)
(***************************************************************************)
\* HostedZoneId ? HostedZoneId : HostedZoneName
ZoneIdOrName(props) ==
  IF props.HostedZoneId # <<>> THEN props.HostedZoneId ELSE props.HostedZoneName

\* mutant: the Delete catch block reports every error as failure
SesDeleteCatch_AlwaysFailure(h, err) == Responded(h, SendFailure(err))

\* the catch block of the Delete case
SesDeleteCatch(h, err) ==
  IF h.event.PhysicalResourceId = DEFAULT_PHYSICAL_RESOURCE_ID
    THEN Responded(h, SendSuccess(h.event.PhysicalResourceId, NoData))
  ELSE Responded(h, SendFailure(err))

\* handler up to its first await: the destructuring of ResourceProperties is
\* outside every try block, so without them the handler rejects unanswered
SesStart ==
  /\ hnd.kind = "ses" /\ hnd.pc = "start"
  /\ IF ~hnd.event.ResourceProperties.present
       THEN /\ hnd' = [hnd EXCEPT !.pc = "crashed"]
            /\ UNCHANGED sesv
     ELSE IF hnd.event.RequestType = CREATE_REQUEST
       THEN /\ sesv' = StartVerify(ZoneIdOrName(hnd.event.ResourceProperties), UPSERT)
            /\ hnd' = [hnd EXCEPT !.pc = "verify"]
     ELSE IF hnd.event.RequestType = UPDATE_REQUEST
       THEN IF ~hnd.event.OldResourceProperties.present
              THEN /\ hnd' = Responded(hnd, SendFailure(TYPE_ERROR))
                   /\ UNCHANGED sesv
            ELSE /\ sesv' = StartVerify(ZoneIdOrName(hnd.event.OldResourceProperties), DELETE)
                 /\ hnd' = [hnd EXCEPT !.pc = "verifyOld"]
     ELSE IF hnd.event.RequestType = DELETE_REQUEST
       THEN /\ sesv' = StartVerify(ZoneIdOrName(hnd.event.ResourceProperties), DELETE)
            /\ hnd' = [hnd EXCEPT !.pc = "verify"]
     ELSE /\ hnd' = Responded(hnd, SendFailure(INVALID_REQUEST))
          /\ UNCHANGED sesv
  /\ UNCHANGED <<provider, nameCall, walks, pub, batches, calls, poll>>

\* update: verifyDomain(oldZoneIdOrName, DELETE) has settled
SesOldVerified ==
  /\ hnd.kind = "ses" /\ hnd.pc = "verifyOld"
  /\ VerifyDone(sesv)
  /\ IF ~sesv.res.ok
       THEN /\ hnd' = Responded(hnd, SendFailure(sesv.res.err))
            /\ UNCHANGED sesv
     ELSE /\ sesv' = StartVerify(ZoneIdOrName(hnd.event.ResourceProperties), UPSERT)
          /\ hnd' = [hnd EXCEPT !.pc = "verify", !.oldDomainName = sesv.res.domainName,
                                !.oldChangeId = sesv.res.changeId]
  /\ UNCHANGED <<provider, nameCall, walks, pub, batches, calls, poll>>

\* what each case sends after its last verifyDomain has returned
SesOutcome(h, r) ==
  IF h.event.RequestType = CREATE_REQUEST
    THEN SendSuccess(r.domainName, [NoData EXCEPT !.isNull = FALSE, !.changeId = r.changeId])
  ELSE IF h.event.RequestType = UPDATE_REQUEST
    THEN SendSuccess(r.domainName,
                     [NoData EXCEPT !.isNull = FALSE, !.newChangeId = r.changeId,
                                    !.oldChangeId = h.oldChangeId,
                                    !.oldDomainName = h.oldDomainName])
  ELSE SendSuccess(h.event.PhysicalResourceId,
                   [NoData EXCEPT !.isNull = FALSE, !.changeId = r.changeId])

\* the last verifyDomain of the case has settled
SesVerified ==
  /\ hnd.kind = "ses" /\ hnd.pc = "verify"
  /\ VerifyDone(sesv)
  /\ hnd' = IF sesv.res.ok THEN Responded(hnd, SesOutcome(hnd, sesv.res))
            ELSE IF hnd.event.RequestType = DELETE_REQUEST
              THEN SesDeleteCatch(hnd, sesv.res.err)
            ELSE Responded(hnd, SendFailure(sesv.res.err))
  /\ UNCHANGED <<provider, nameCall, walks, pub, batches, calls, poll, sesv>>

(***************************************************************************)
(* The email-domain handler as packaged (cloudformation-ses-verifydomain): *)
(* the zone is given by id only, nothing is deleted at SES, and a Delete   *)
(* has no catch of its own for the unassigned id                           *)
(***************************************************************************)
\* verifyDomain(hostedZoneId, action) up to its first await
PackagedStartVerify(hostedZoneId, action) ==
  [IdleVerify EXCEPT !.pc = "lookup", !.action = action,
                     !.hostedZoneIdOrName = hostedZoneId, !.hostedZoneId = hostedZoneId]

\* the r53Params of the packaged verifyDomain: the TXT value is not quoted
PackagedBatch(v) ==
  [VerifyBatch(v) EXCEPT
     !.Changes[1].ResourceRecordSet.ResourceRecords = <<[Value |-> VerificationToken]>>]

\* await route53.getHostedZone(...), then both SES calls are started
PackagedResolve ==
  /\ hnd.kind = "packaged" /\ sesv.pc = "lookup"
  /\ LET name == HostedZoneName(sesv.hostedZoneId)
     IN IF name = <<>>
          THEN /\ sesv' = [sesv EXCEPT !.pc = "thrown", !.res = VerifyRejected(PROVIDER_ERROR)]
               /\ calls' = Called(calls, "getHostedZone", 1)
        ELSE /\ sesv' = [sesv EXCEPT !.pc = "verifying", !.domainName = name,
                                      !.identity = "pending", !.dkim = "pending"]
             /\ calls' = Called(Called(Called(calls, "getHostedZone", 1),
                                        "verifyDomainIdentity", 1),
                                 "verifyDomainDkim", 1)
  /\ UNCHANGED <<provider, nameCall, walks, pub, batches, poll, hnd>>

\* await Promise.all(...) of the two SES calls, then the batch is submitted
PackagedJoin ==
  /\ hnd.kind = "packaged" /\ sesv.pc = "verifying"
  /\ IF sesv.rejection # NoError
       THEN /\ sesv' = [sesv EXCEPT !.pc = "thrown", !.res = VerifyRejected(sesv.rejection)]
            /\ UNCHANGED <<batches, calls>>
     ELSE /\ sesv.identity = "ok" /\ sesv.dkim = "ok"
          /\ sesv' = VerifySubmitted(sesv)
          /\ batches' = Append(batches, PackagedBatch(sesv))
          /\ calls' = Called(calls, "changeResourceRecordSets", 1)
  /\ UNCHANGED <<provider, nameCall, walks, pub, poll, hnd>>

\* handler up to its first await
PackagedStart ==
  /\ hnd.kind = "packaged" /\ hnd.pc = "start"
  /\ IF ~hnd.event.ResourceProperties.present
       THEN /\ hnd' = [hnd EXCEPT !.pc = "crashed"]
            /\ UNCHANGED sesv
     ELSE IF hnd.event.RequestType = CREATE_REQUEST
       THEN /\ sesv' = PackagedStartVerify(hnd.event.ResourceProperties.HostedZoneId, UPSERT)
            /\ hnd' = [hnd EXCEPT !.pc = "verify"]
     ELSE IF hnd.event.RequestType = UPDATE_REQUEST
       THEN IF ~hnd.event.OldResourceProperties.present
              THEN /\ hnd' = Responded(hnd, SendFailure(TYPE_ERROR))
                   /\ UNCHANGED sesv
            ELSE /\ sesv' = PackagedStartVerify(hnd.event.OldResourceProperties.HostedZoneId,
                                                DELETE)
                 /\ hnd' = [hnd EXCEPT !.pc = "verifyOld"]
     ELSE IF hnd.event.RequestType = DELETE_REQUEST
       THEN /\ sesv' = PackagedStartVerify(hnd.event.ResourceProperties.HostedZoneId, DELETE)
            /\ hnd' = [hnd EXCEPT !.pc = "verify"]
     ELSE /\ hnd' = Responded(hnd, SendFailure(INVALID_REQUEST))
          /\ UNCHANGED sesv
  /\ UNCHANGED <<provider, nameCall, walks, pub, batches, calls, poll>>

\* update: verifyDomain(OldHostedZoneId, "DELETE") has settled
PackagedOldVerified ==
  /\ hnd.kind = "packaged" /\ hnd.pc = "verifyOld"
  /\ VerifyDone(sesv)
  /\ IF ~sesv.res.ok
       THEN /\ hnd' = Responded(hnd, SendFailure(sesv.res.err))
            /\ UNCHANGED sesv
     ELSE /\ sesv' = PackagedStartVerify(hnd.event.ResourceProperties.HostedZoneId, UPSERT)
          /\ hnd' = [hnd EXCEPT !.pc = "verify", !.oldDomainName = sesv.res.domainName,
                                !.oldChangeId = sesv.res.changeId]
  /\ UNCHANGED <<provider, nameCall, walks, pub, batches, calls, poll>>

\* what each case sends after its last verifyDomain has returned: the id is
\* the domainName verifyDomain returns, in the Delete case too
PackagedOutcome(h, r) ==
  IF h.event.RequestType = UPDATE_REQUEST
    THEN SendSuccess(r.domainName,
                     [NoData EXCEPT !.isNull = FALSE, !.newChangeId = r.changeId,
                                    !.oldChangeId = h.oldChangeId,
                                    !.oldDomainName = h.oldDomainName])
  ELSE SendSuccess(r.domainName, [NoData EXCEPT !.isNull = FALSE, !.changeId = r.changeId])

\* the last verifyDomain of the case has settled
PackagedVerified ==
  /\ hnd.kind = "packaged" /\ hnd.pc = "verify"
  /\ VerifyDone(sesv)
  /\ hnd' = IF sesv.res.ok THEN Responded(hnd, PackagedOutcome(hnd, sesv.res))
            ELSE Responded(hnd, SendFailure(sesv.res.err))
  /\ UNCHANGED <<provider, nameCall, walks, pub, batches, calls, poll, sesv>>

(***************************************************************************)
(* The names and the Route53 states the resolver is run on                 *)
(***************************************************************************)
Labels == <<"d", "c", "b", "a", "e", "f">>

RECURSIVE NameOfDepth(_)
\* d, c.d, b.c.d, a.b.c.d, ...
NameOfDepth(k) ==
  IF k = 1 THEN <<Labels[1]>> ELSE NextDomainName(<<Labels[k]>>, NameOfDepth(k - 1))

\* the zone Route53 hosts under name n: its Name carries the trailing dot
ZoneIdOf(n) == <<"Z">> \o SelectSeq(n, LAMBDA ch : ch # Dot)
ZoneOf(n) == [Id |-> <<HOSTEDZONE_PREFIX>> \o ZoneIdOf(n), Name |-> n \o <<Dot>>]
\* a zone that sorts next to n without being n (zap.domain.com for ap.domain.com)
NearZoneOf(n) == ZoneOf(<<"z">> \o n)

ListingsFor(n) ==
  {NoListing, Listing(<<>>), Listing(<<ZoneOf(n)>>), Listing(<<NearZoneOf(n)>>),
   Listing(<<ZoneOf(n), NearZoneOf(n)>>)}

IdleNameCall == [domainName |-> <<>>, pc |-> "idle", res |-> Rejected(NoError)]

\* ---- getZoneIdByName on its own ----
NameInputs ==
  {<<>>} \cup {NameOfDepth(k) : k \in 1..MaxLabels}
         \cup {NameOfDepth(k) \o <<Dot>> : k \in 1..MaxLabels}

NameListings(d) ==
  {NoListing, Listing(<<>>)}
    \cup {Listing(<<z>>) : z \in {ZoneOf(NameOfDepth(k)) : k \in 1..MaxLabels}
                                   \cup {NearZoneOf(StripDot(d))}}
    \cup {Listing(<<ZoneOf(StripDot(d)), z>>) :
             z \in {ZoneOf(NameOfDepth(k)) : k \in 1..MaxLabels}}

InitName ==
  /\ \E d \in NameInputs :
       /\ nameCall = [domainName |-> d, pc |-> "call", res |-> Rejected(NoError)]
       /\ listing \in [{StripDot(d)} -> NameListings(d)]
  /\ nsAnswer = <<>>
  /\ certs = <<>>
  /\ walks = <<>>
  /\ pub = IdlePub
  /\ batches = <<>>
  /\ calls = NoCalls
  /\ poll = IdlePoll
  /\ hnd = IdleHandler
  /\ sesv = IdleVerify

NameReturn ==
  /\ nameCall.pc = "call"
  /\ nameCall' = [nameCall EXCEPT !.pc = "done",
                                  !.res = GetZoneIdByName(nameCall.domainName)]
  /\ calls' = Called(calls, "listHostedZonesByName", 1)
  /\ UNCHANGED <<provider, walks, pub, batches, poll, hnd, sesv>>

NextName == NameReturn
SpecName == InitName /\ [][NextName]_vars

\* ---- getZoneIdByFQDN on its own ----
FQDNInputs == NameInputs

\* the candidate zone names the loop builds for an fqdn, shallowest first
RECURSIVE CandidatesAcc(_, _, _)
CandidatesAcc(rest, domainName, acc) ==
  IF rest = <<>> THEN acc
  ELSE LET dn == NextDomainName(Head(rest), domainName)
       IN CandidatesAcc(Tail(rest), dn, Append(acc, dn))
Candidates(fqdn) ==
  LET parts == Reverse(Split(NormalizeFQDN(fqdn)))
  IN CandidatesAcc(Tail(parts), Head(parts), <<>>)

Range(q) == {q[i] : i \in DOMAIN q}

InitFQDN ==
  /\ \E f \in FQDNInputs :
       /\ walks = <<StartWalk(f)>>
       /\ listing \in {l \in [Range(Candidates(f)) -> UNION {ListingsFor(c) : c \in Range(Candidates(f))}] :
                          \A c \in Range(Candidates(f)) : l[c] \in ListingsFor(c)}
       /\ nsAnswer \in [{<<ZoneIdOf(c), NormalizeFQDN(f)>> : c \in Range(Candidates(f))} -> NSOutcomes]
  /\ nameCall = IdleNameCall
  /\ certs = <<>>
  /\ pub = IdlePub
  /\ batches = <<>>
  /\ calls = NoCalls
  /\ poll = IdlePoll
  /\ hnd = IdleHandler
  /\ sesv = IdleVerify

NextFQDN == \E i \in 1..1 : WalkLookup(i) \/ WalkTest(i)
SpecFQDN == InitFQDN /\ [][NextFQDN]_vars

\* ---- a name resolved with and without the trailing period ----
PlainNames == {<<>>} \cup {NameOfDepth(k) : k \in 1..MaxLabels}

\* both spellings of f go through getZoneIdByFQDN, one of them through
\* getZoneIdByName, against one state of Route53
InitTwin ==
  /\ \E f \in PlainNames :
       LET names == Range(Candidates(f)) \cup {f}
       IN /\ walks = <<StartWalk(f), StartWalk(f \o <<Dot>>)>>
          /\ \E d \in {f, f \o <<Dot>>} :
                nameCall = [domainName |-> d, pc |-> "call", res |-> Rejected(NoError)]
          /\ listing \in {l \in [names -> UNION {ListingsFor(c) : c \in names}] :
                             \A c \in names : l[c] \in ListingsFor(c)}
          /\ nsAnswer \in [{<<ZoneIdOf(c), f>> : c \in Range(Candidates(f))} -> NSOutcomes]
  /\ certs = <<>>
  /\ pub = IdlePub
  /\ batches = <<>>
  /\ calls = NoCalls
  /\ poll = IdlePoll
  /\ hnd = IdleHandler
  /\ sesv = IdleVerify

\* the calls do not share state: they are run one after the other
NextTwin ==
  \/ WalkLookup(1)
  \/ WalkTest(1)
  \/ WalkDone(walks[1]) /\ WalkLookup(2)
  \/ WalkDone(walks[1]) /\ WalkTest(2)
  \/ WalkDone(walks[2]) /\ NameReturn
SpecTwin == InitTwin /\ [][NextTwin]_vars

\* ---- publishCertValidationDNS on its own ----
FQDN1 == <<"b", ".", "c", ".", "d">>
FQDN2 == <<"a", ".", "e", ".", "f">>
FQDN3 == <<"a", ".", "c", ".", "d">>
ZoneName1 == <<"c", ".", "d">>
ZoneName2 == <<"e", ".", "f">>

\* how Route53 stands for one of the two zone names: it hosts the zone and
\* the zone holds the fqdn, it does not list the zone, or the zone delegates
ZoneStates == {"owns", "unlisted", "delegates"}

WorldListing(s1, s2) ==
  (ZoneName1 :> (IF s1 = "unlisted" THEN Listing(<<>>) ELSE Listing(<<ZoneOf(ZoneName1)>>)))
  @@ (ZoneName2 :> (IF s2 = "unlisted" THEN Listing(<<>>) ELSE Listing(<<ZoneOf(ZoneName2)>>)))

WorldNS(s1, s2) ==
  (<<ZoneIdOf(ZoneName1), FQDN1>> :> (IF s1 = "delegates" THEN NS_DELEGATED ELSE NS_NONE))
  @@ (<<ZoneIdOf(ZoneName1), FQDN3>> :> (IF s1 = "delegates" THEN NS_DELEGATED ELSE NS_NONE))
  @@ (<<ZoneIdOf(ZoneName2), FQDN2>> :> (IF s2 = "delegates" THEN NS_DELEGATED ELSE NS_NONE))

\* the validation entry ACM reports for a domain name
ValidationOption(n, status) ==
  [DomainName |-> n,
   ValidationStatus |-> status,
   ResourceRecord |-> [Name |-> <<"_">> \o n, Type |-> "CNAME", Value |-> <<"v">> \o n]]

ValidationOptions ==
  {ValidationOption(n, st) : n \in {FQDN1, FQDN2, FQDN3},
                             st \in {PENDING_VALIDATION, "SUCCESS"}}

OptionLists == UNION {[1..n -> ValidationOptions] : n \in 0..MaxEntries}

Described(type, options) == [ok |-> TRUE, Type |-> type, DomainValidationOptions |-> options]
DescribeFails == [ok |-> FALSE, Type |-> "none", DomainValidationOptions |-> <<>>]

Certificates ==
  {DescribeFails, Described("IMPORTED", <<>>)}
    \cup {Described(AMAZON_ISSUED_CERT_TYPE, o) : o \in OptionLists}

ARN1 == <<"arn:1">>

InitPublish ==
  /\ \E s1 \in ZoneStates, s2 \in ZoneStates :
       /\ listing = WorldListing(s1, s2)
       /\ nsAnswer = WorldNS(s1, s2)
  /\ certs \in [{ARN1} -> Certificates]
  /\ \E action \in {UPSERT, DELETE} : pub = StartPub(ARN1, action)
  /\ nameCall = IdleNameCall
  /\ walks = <<>>
  /\ batches = <<>>
  /\ calls = NoCalls
  /\ poll = IdlePoll
  /\ hnd = IdleHandler
  /\ sesv = IdleVerify

NextPublish ==
  \/ PubDescribe
  \/ \E i \in 1..(MaxEntries + 1) : WalkLookup(i) \/ WalkTest(i)
  \/ PubJoin
  \/ \E k \in 1..(MaxEntries + 1) : BatchSettle(k)
  \/ PubReturn
SpecPublish == InitPublish /\ [][NextPublish]_vars

\* ---- the two handlers ----
ARN2 == <<"arn:2">>
Summary(arn, n) == [CertificateArn |-> arn, DomainName |-> n]

\* the pages acm.listCertificates answers with while the handler polls
HandlerPages ==
  {<<>>, <<Summary(ARN1, FQDN1)>>,
   <<Summary(ARN2, FQDN2), Summary(ARN1, FQDN1)>>}

\* context.getRemainingTimeInMillis(): below, at and above the safety margin
RemainingTimes == {2500, 3000, 3999, 4000, 5000}

RequestTypes == {CREATE_REQUEST, UPDATE_REQUEST, DELETE_REQUEST, "Replace"}

AcmEvents ==
  [RequestType : RequestTypes,
   PhysicalResourceId : {DEFAULT_PHYSICAL_RESOURCE_ID, ARN2},
   ResourceProperties : {NoProperties, CertProperties(FQDN1)},
   OldResourceProperties : {NoProperties, CertProperties(FQDN2)}]

SesEvents ==
  [RequestType : RequestTypes,
   PhysicalResourceId : {DEFAULT_PHYSICAL_RESOURCE_ID, ZoneName1},
   ResourceProperties : {NoProperties, ZoneIdProperties(ZoneIdOf(ZoneName1)),
                         ZoneNameProperties(ZoneName1)},
   OldResourceProperties : {NoProperties, ZoneNameProperties(ZoneName2),
                            ZoneNameProperties(ZoneName1)}]

NewCertificates ==
  {DescribeFails, Described("IMPORTED", <<>>),
   Described(AMAZON_ISSUED_CERT_TYPE, <<ValidationOption(FQDN1, PENDING_VALIDATION)>>),
   Described(AMAZON_ISSUED_CERT_TYPE, <<ValidationOption(FQDN1, PENDING_VALIDATION),
                                        ValidationOption(FQDN2, PENDING_VALIDATION)>>)}
OldCertificates ==
  {Described("IMPORTED", <<>>),
   Described(AMAZON_ISSUED_CERT_TYPE, <<ValidationOption(FQDN2, PENDING_VALIDATION)>>)}

InitHandler ==
  /\ \E s1 \in ZoneStates, s2 \in ZoneStates :
       /\ listing = WorldListing(s1, s2)
       /\ nsAnswer = WorldNS(s1, s2)
  /\ \/ /\ \E e \in AcmEvents, t \in RemainingTimes :
              hnd = [IdleHandler EXCEPT !.kind = "acm", !.pc = "start", !.event = e,
                                        !.remaining = t]
        /\ \E c1 \in NewCertificates, c2 \in OldCertificates :
              certs = (ARN1 :> c1) @@ (ARN2 :> c2)
     \/ /\ \E e \in SesEvents :
              hnd = [IdleHandler EXCEPT !.kind = "ses", !.pc = "start", !.event = e]
        /\ certs = <<>>
  /\ nameCall = IdleNameCall
  /\ walks = <<>>
  /\ pub = IdlePub
  /\ batches = <<>>
  /\ calls = NoCalls
  /\ poll = IdlePoll
  /\ sesv = IdleVerify

NextHandler ==
  \/ AcmStart
  \/ \E page \in HandlerPages, more \in BOOLEAN : PollFetch(FALSE, page, more)
  \/ PollFetch(TRUE, <<>>, FALSE)
  \/ AcmLookedUp
  \/ AcmOldLookedUp
  \/ AcmOldPublished
  \/ AcmPublished
  \/ PubDescribe
  \/ \E i \in 1..2 : WalkLookup(i) \/ WalkTest(i)
  \/ PubJoin
  \/ \E k \in 1..4 : BatchSettle(k)
  \/ PubReturn
  \/ SesStart
  \/ VerifyResolve
  \/ VerifyIdentityAnswer
  \/ VerifyDkimAnswer
  \/ VerifyJoin
  \/ VerifyRevoked
  \/ VerifyReturn
  \/ SesOldVerified
  \/ SesVerified
SpecHandler == InitHandler /\ [][NextHandler]_vars

\* ---- lookupCertificate on its own ----
\* timeoutMs: none (0), negative, and every half interval up to the budget
Timeouts ==
  {0 - (WAIT_BETWEEN_REQS_MS \div 2)}
    \cup {k * (WAIT_BETWEEN_REQS_MS \div 2) : k \in 0..(2 * MaxBudget + 1)}

\* the pages acm.listCertificates answers with: no entry for the name, one,
\* or several of which the one for ARN1 is not always the first
LookupPages ==
  {<<>>, <<Summary(ARN2, FQDN2)>>, <<Summary(ARN1, FQDN1)>>, <<Summary(ARN2, FQDN1)>>,
   <<Summary(ARN2, FQDN2), Summary(ARN1, FQDN1), Summary(ARN2, FQDN1)>>}

\* the names looked up: as listed, and with a trailing period
LookupNames == {FQDN1, FQDN1 \o <<Dot>>}

\* lookupCertificate(domainName, timeoutMs) is called
LookupCall(domainName, timeoutMs) ==
  /\ poll.pc = "idle"
  /\ poll' = StartPoll(domainName, timeoutMs)
  /\ UNCHANGED <<provider, nameCall, walks, pub, batches, calls, hnd, sesv>>

InitLookup ==
  /\ poll = IdlePoll
  /\ listing = <<>>
  /\ nsAnswer = <<>>
  /\ certs = <<>>
  /\ nameCall = IdleNameCall
  /\ walks = <<>>
  /\ pub = IdlePub
  /\ batches = <<>>
  /\ calls = NoCalls
  /\ hnd = IdleHandler
  /\ sesv = IdleVerify

NextLookup ==
  \/ \E d \in LookupNames, t \in Timeouts : LookupCall(d, t)
  \/ \E page \in LookupPages, more \in BOOLEAN : PollFetch(FALSE, page, more)
  \/ PollFetch(TRUE, <<>>, FALSE)
SpecLookup == InitLookup /\ [][NextLookup]_vars

\* ---- update of a certificate resource created earlier ----
ARN3 == <<"arn:3">>

\* the listings acm.listCertificates answers with at the time of the Update:
\* the old name's certificate of Create time (ARN2) may be listed behind a
\* later pending certificate for the same name (ARN3)
UpdatePages ==
  {<<>>, <<Summary(ARN1, FQDN1)>>,
   <<Summary(ARN2, FQDN2), Summary(ARN1, FQDN1)>>,
   <<Summary(ARN3, FQDN2), Summary(ARN2, FQDN2), Summary(ARN1, FQDN1)>>}

\* the Update event of a resource whose Create returned ARN2 as physical id
InitUpdate ==
  /\ \E s1 \in ZoneStates, s2 \in ZoneStates :
       /\ listing = WorldListing(s1, s2)
       /\ nsAnswer = WorldNS(s1, s2)
  /\ \E t \in RemainingTimes :
       hnd = [IdleHandler EXCEPT
                !.kind = "acm", !.pc = "start", !.remaining = t,
                !.event = [RequestType |-> UPDATE_REQUEST,
                           PhysicalResourceId |-> ARN2,
                           ResourceProperties |-> CertProperties(FQDN1),
                           OldResourceProperties |-> CertProperties(FQDN2)]]
  /\ \E c1 \in NewCertificates, c2 \in OldCertificates :
       certs = (ARN1 :> c1) @@ (ARN2 :> c2) @@ (ARN3 :> c2)
  /\ nameCall = IdleNameCall
  /\ walks = <<>>
  /\ pub = IdlePub
  /\ batches = <<>>
  /\ calls = NoCalls
  /\ poll = IdlePoll
  /\ sesv = IdleVerify

NextUpdate ==
  \/ AcmStart
  \/ \E page \in UpdatePages, more \in BOOLEAN : PollFetch(FALSE, page, more)
  \/ PollFetch(TRUE, <<>>, FALSE)
  \/ AcmLookedUp
  \/ AcmOldLookedUp
  \/ AcmOldPublished
  \/ AcmPublished
  \/ PubDescribe
  \/ \E i \in 1..2 : WalkLookup(i) \/ WalkTest(i)
  \/ PubJoin
  \/ \E k \in 1..4 : BatchSettle(k)
  \/ PubReturn
SpecUpdate == InitUpdate /\ [][NextUpdate]_vars

\* ---- the email-domain handler as packaged ----
PackagedEvents ==
  [RequestType : RequestTypes,
   PhysicalResourceId : {DEFAULT_PHYSICAL_RESOURCE_ID, ZoneName1, ZoneName1 \o <<Dot>>},
   ResourceProperties : {NoProperties, ZoneIdProperties(ZoneIdOf(ZoneName1))},
   OldResourceProperties : {NoProperties, ZoneIdProperties(ZoneIdOf(ZoneName2))}]

InitPackaged ==
  /\ \E s1 \in ZoneStates, s2 \in ZoneStates :
       /\ listing = WorldListing(s1, s2)
       /\ nsAnswer = WorldNS(s1, s2)
  /\ \E e \in PackagedEvents :
       hnd = [IdleHandler EXCEPT !.kind = "packaged", !.pc = "start", !.event = e]
  /\ certs = <<>>
  /\ nameCall = IdleNameCall
  /\ walks = <<>>
  /\ pub = IdlePub
  /\ batches = <<>>
  /\ calls = NoCalls
  /\ poll = IdlePoll
  /\ sesv = IdleVerify

NextPackaged ==
  \/ PackagedStart
  \/ PackagedResolve
  \/ VerifyIdentityAnswer
  \/ VerifyDkimAnswer
  \/ PackagedJoin
  \/ \E k \in 1..2 : BatchSettle(k)
  \/ VerifyReturn
  \/ PackagedOldVerified
  \/ PackagedVerified
SpecPackaged == InitPackaged /\ [][NextPackaged]_vars

\* ---- the email-domain handler invoked twice with the same event, against
\* ---- a Route53 that keeps record sets and SES calls that succeed ----
\* the batch an earlier Create for the zone has had applied
CreatedBefore(name) ==
  [VerifyBatch([IdleVerify EXCEPT !.action = UPSERT, !.hostedZoneId = ZoneIdOf(name),
                                  !.domainName = name])
     EXCEPT !.status = "ok"]

\* the orchestrator delivers the event a second time once the first
\* invocation has answered
InvokeAgain ==
  /\ hnd.pc = "done" /\ hnd.invocation = 1
  /\ hnd' = [IdleHandler EXCEPT !.kind = hnd.kind, !.pc = "start", !.event = hnd.event,
                                !.invocation = 2, !.firstResponse = hnd.response,
                                !.firstBatches = Len(batches)]
  /\ sesv' = IdleVerify
  /\ UNCHANGED <<provider, nameCall, walks, pub, batches, calls, poll>>

InitReinvoke ==
  /\ \E s1 \in ZoneStates, s2 \in ZoneStates :
       /\ listing = WorldListing(s1, s2)
       /\ nsAnswer = WorldNS(s1, s2)
  /\ \E e \in SesEvents :
       hnd = [IdleHandler EXCEPT !.kind = "ses", !.pc = "start", !.event = e]
  /\ batches \in {<<>>, <<CreatedBefore(ZoneName1)>>, <<CreatedBefore(ZoneName2)>>,
                  <<CreatedBefore(ZoneName1), CreatedBefore(ZoneName2)>>}
  /\ certs = <<>>
  /\ nameCall = IdleNameCall
  /\ walks = <<>>
  /\ pub = IdlePub
  /\ calls = NoCalls
  /\ poll = IdlePoll
  /\ sesv = IdleVerify

NextReinvoke ==
  \/ SesStart
  \/ VerifyResolve
  \/ IdentityAnswers(TRUE)
  \/ DkimAnswers(TRUE)
  \/ VerifyJoin
  \/ IdentityDeleted(TRUE)
  \/ \E k \in 1..6 : RecordSettle(k)
  \/ VerifyReturn
  \/ SesOldVerified
  \/ SesVerified
  \/ InvokeAgain
SpecReinvoke == InitReinvoke /\ [][NextReinvoke]_vars

(***************************************************************************)
(* Claims about publishCertValidationDNS (SpecPublish)                     *)
(***************************************************************************)
ResolvedZones == {walks[i].res.id : i \in {j \in DOMAIN walks : walks[j].pc = "returned"}}
Submitted(p) == p.pc \in {"publishing", "returned"} \/ p.count > 0
OwnRejected(p) == {k \in OwnBatches(p) : batches[k].status = "rejected"}

\* C1: a DELETE publish never raises because of a rejected change batch: one
\* batch per resolved zone is submitted whatever happens to the others, and
\* the result has, at each zone's position, null if that zone's batch was
\* rejected and the batch's change id if it was accepted.
C1_DeleteToleratesRejectedBatch ==
  pub.action = DELETE =>
    /\ pub.pc = "thrown" => pub.count = 0 /\ pub.res.err # CHANGE_REJECTED
    /\ Submitted(pub) =>
         /\ pub.pc # "thrown"
         /\ pub.count = Cardinality(ResolvedZones)
         /\ \A k \in OwnBatches(pub) : k \in DOMAIN batches
    /\ pub.pc = "returned" =>
         /\ pub.res.ok
         /\ Len(pub.res.ids) = pub.count
         /\ \A i \in 1..pub.count :
              LET b == batches[pub.first + i - 1]
              IN /\ b.status = "rejected" => pub.res.ids[i] = Null
                 /\ b.status = "ok" =>
                      pub.res.ids[i] = ChangeId(pub.first + i - 1)
                 /\ b.status # "inflight"

C1_Witness ==
  /\ pub.action = DELETE /\ pub.pc = "returned"
  /\ Len(pub.res.ids) = 2
  /\ Cardinality({i \in 1..2 : pub.res.ids[i] = Null}) = 1

\* C2: an UPSERT publish with a rejected change batch raises that rejection
\* and returns no result list, so no other zone's change id is reported.
C2_UpsertRaisesOnRejectedBatch ==
  (pub.action = UPSERT /\ OwnRejected(pub) # {}) =>
    /\ pub.pc \in {"publishing", "thrown"}
    /\ pub.rejection = CHANGE_REJECTED
    /\ pub.pc = "thrown" => pub.res = PubRejected(CHANGE_REJECTED)
    /\ pub.res.ids = <<>>

C2_Witness ==
  /\ pub.action = UPSERT /\ pub.pc = "thrown"
  /\ pub.res.err = CHANGE_REJECTED
  /\ pub.count = 2
  /\ \E k \in OwnBatches(pub) : batches[k].status = "ok"

(***************************************************************************)
(* Claims about the handlers (SpecHandler)                                 *)
(***************************************************************************)
SentinelDelete ==
  /\ hnd.event.RequestType = DELETE_REQUEST
  /\ hnd.event.PhysicalResourceId = DEFAULT_PHYSICAL_RESOURCE_ID
Answered == hnd.pc = "done"
TotalCalls(op) == calls[op]
NoProviderCall == \A op \in Operations : TotalCalls(op) = 0

\* the deletion the handler attempts before it answers has failed
DeleteAttemptFailed ==
  IF hnd.kind = "acm"
    THEN \/ ~hnd.event.ResourceProperties.present
         \/ (PollDone(poll) /\ ~poll.res.ok)
         \/ (PubDone(pub) /\ ~pub.res.ok)
  ELSE VerifyDone(sesv) /\ ~sesv.res.ok

\* C3: whatever the provider calls do, every answer to a Delete event whose
\* PhysicalResourceId is the DEFAULT_PHYSICAL_RESOURCE_ID sentinel is success
\* with that same id; failure is never reported for it.
C3_SentinelDeleteSucceeds ==
  SentinelDelete =>
    /\ hnd.response.kind # "failure"
    /\ Answered =>
         /\ hnd.response.kind = "success"
         /\ hnd.response.id = hnd.event.PhysicalResourceId

C3_Witness ==
  /\ SentinelDelete /\ Answered
  /\ hnd.kind = "acm"
  /\ poll.res.err = LOOKUP_TIMED_OUT
  /\ hnd.response.kind = "success"
  /\ hnd.response.id = DEFAULT_PHYSICAL_RESOURCE_ID

NameCallDone == nameCall.pc = "done"
FirstListed == ListHostedZonesByName(nameCall.domainName).HostedZones[1]
ListedSome ==
  /\ ListHostedZonesByName(nameCall.domainName).defined
  /\ Len(ListHostedZonesByName(nameCall.domainName).HostedZones) >= 1
ExactOrDotted ==
  \/ FirstListed.Name = nameCall.domainName
  \/ FirstListed.Name = nameCall.domainName \o <<Dot>>

Hosted(c) == GetZoneIdByName(c).ok
NotListed(c) == GetZoneIdByName(c).err = NO_MATCH_NAME_ERROR
Delegates(c, w) ==
  Hosted(c) /\ TestDNSAnswer(GetZoneIdByName(c).id, w.normalizedFQDN) = NS_DELEGATED
Owns(c, w) ==
  Hosted(c) /\ TestDNSAnswer(GetZoneIdByName(c).id, w.normalizedFQDN) = NS_NONE

\* C5: getZoneIdByFQDN returns the most specific hosted zone that owns the
\* name: when a proper ancestor of the fqdn is hosted and has no NS delegation
\* for it, and every shallower candidate is either not hosted or a hosted zone
\* that delegates the fqdn, that ancestor's zone id is returned.
C5_MostSpecificOwner ==
  \A i \in DOMAIN walks :
    LET w == walks[i]
        cs == Candidates(w.fqdn)
    IN WalkDone(w) =>
         \A k \in 1..(Len(cs) - 1) :
           ( /\ Owns(cs[k], w)
             /\ \A j \in 1..(k - 1) : NotListed(cs[j]) \/ Delegates(cs[j], w) )
           => w.res = Resolved(GetZoneIdByName(cs[k]).id)

\* C6: a NoZonesFound failure of a candidate's exact-name lookup does not end
\* the walk while a deeper candidate remains.
C6_NoZonesFoundContinues ==
  \A i \in DOMAIN walks :
    LET w == walks[i]
    IN (w.pc = "thrown" /\ w.res.err = NO_MATCH_NAME_ERROR)
         => w.domainNameIndex + 1 >= Len(w.rest)

\* C7: for an fqdn equal to a hosted zone's name (the shallower candidates
\* being hosted zones that delegate it) that zone is returned and no NS test
\* is issued against it.
C7_ExactZoneWithoutDelegationTest ==
  \A i \in DOMAIN walks :
    LET w == walks[i]
        cs == Candidates(w.fqdn)
    IN ( /\ WalkDone(w)
         /\ Len(cs) >= 1
         /\ Hosted(cs[Len(cs)])
         /\ \A j \in 1..(Len(cs) - 1) : Delegates(cs[j], w) )
       => /\ w.res = Resolved(GetZoneIdByName(cs[Len(cs)]).id)
          /\ GetZoneIdByName(cs[Len(cs)]).id \notin Range(w.tested)

\* C10: when every candidate is either not hosted or a hosted zone that
\* delegates the fqdn (also when there is no candidate: empty or single-label
\* fqdn), the call fails with ZoneNotDeterminable and returns no id.
C10_ZoneNotDeterminable ==
  \A i \in DOMAIN walks :
    LET w == walks[i]
        cs == Candidates(w.fqdn)
    IN ( /\ WalkDone(w)
         /\ \A k \in 1..Len(cs) : NotListed(cs[k]) \/ Delegates(cs[k], w) )
       => w.res = Rejected(ZONE_NOT_DETERMINABLE)

(***************************************************************************)
(* Claims about the trailing period (SpecTwin)                             *)
(***************************************************************************)
\* the other spelling of a name: with the trailing period, or without it
Twin(d) == IF EndsWithDot(d) THEN SliceDropLast(d) ELSE d \o <<Dot>>
BothWalksDone == Len(walks) = 2 /\ WalkDone(walks[1]) /\ WalkDone(walks[2])

\* C11: a trailing period does not change resolution: getZoneIdByName gives
\* the same zone id or the same failure for d and for d + ".", and
\* getZoneIdByFQDN gives the same zone id or the same failure for f and for
\* f + ".", in every state of Route53.
C11_TrailingSeparatorIrrelevant ==
  /\ NameCallDone => nameCall.res = GetZoneIdByName(Twin(nameCall.domainName))
  /\ BothWalksDone =>
       /\ walks[2].fqdn = walks[1].fqdn \o <<Dot>>
       /\ walks[1].pc = walks[2].pc
       /\ walks[1].res = walks[2].res

C11_Witness ==
  /\ BothWalksDone /\ NameCallDone
  /\ walks[2].fqdn = walks[1].fqdn \o <<Dot>>
  /\ walks[1].res.ok /\ walks[2].res.ok
  /\ Len(walks[1].tested) = 2
  /\ EndsWithDot(nameCall.domainName)
  /\ nameCall.res.ok

(***************************************************************************)
(* Claims about lookupCertificate (SpecLookup)                             *)
(***************************************************************************)
\* a full listing has just been put together and looked through
ListingComplete ==
  /\ poll.listings > 0
  /\ \/ poll.pc = "returned"
     \/ poll.pc = "thrown" /\ poll.res.err = LOOKUP_TIMED_OUT
     \/ poll.pc = "fetch" /\ poll.pages = 0
NamedEntries == {i \in DOMAIN poll.certs : poll.certs[i].DomainName = poll.domainName}
FirstNamed == CHOOSE i \in NamedEntries : \A j \in NamedEntries : i <= j

\* C12: lookupCertificate stops at the first full listing that holds an entry
\* for the requested name: it returns the ARN of the first such entry in
\* listing order, no listing is issued after that one, and the ARN is
\* returned, not a timeout, also when this is the last budgeted iteration.
C12_StopsAtFirstMatch ==
  /\ (ListingComplete /\ NamedEntries # {}) =>
        /\ poll.pc = "returned"
        /\ poll.res = LookupResolved(poll.certs[FirstNamed].CertificateArn)
  /\ poll.pc = "returned" =>
        /\ NamedEntries # {}
        /\ poll.res.arn = poll.certs[FirstNamed].CertificateArn
        /\ poll.listings = poll.iteration
        /\ poll.capped => poll.iteration <= poll.iterations

C12_Witness ==
  /\ poll.pc = "returned"
  /\ poll.capped /\ poll.iteration = poll.iterations /\ poll.iteration = 2
  /\ Cardinality(NamedEntries) > 1
  /\ poll.res.arn = ARN2
  /\ calls["listCertificates"] > poll.listings

\* the poll has ended without a match and without a failed page fetch
EndedUnmatched ==
  poll.pc = "thrown" /\ poll.res.err # PROVIDER_ERROR

\* C13: when no listing holds a match, lookupCertificate called with a
\* deadline D makes exactly floor(D / WAIT_BETWEEN_REQS_MS) full listings and
\* then fails with LookupTimedOut; it returns no ARN.
C13_BudgetThenTimedOut ==
  (poll.capped /\ EndedUnmatched) =>
    /\ poll.res = LookupRejected(LOOKUP_TIMED_OUT)
    /\ poll.listings = poll.iterations

FetchErrors == calls["listCertificates:error"]

\* C14: a failed page fetch ends lookupCertificate with that same error, in
\* whatever iteration and on whatever page it happens: the step that gets the
\* failure rejects with it (not with LookupTimedOut, and the poll does not go
\* on as if nothing had been found), and no page fetch follows a failed one.
C14_FetchErrorPropagates ==
  [][ /\ FetchErrors' > FetchErrors =>
           /\ poll'.pc = "thrown"
           /\ poll'.res = LookupRejected(PROVIDER_ERROR)
      /\ FetchErrors > 0 =>
           /\ calls' = calls
           /\ poll' = poll ]_vars

C14_Witness ==
  /\ FetchErrors = 1
  /\ poll.pc = "thrown" /\ poll.res.err = PROVIDER_ERROR
  /\ poll.listings = 1 /\ poll.iteration = 2 /\ poll.pages = 2
  /\ calls["listCertificates"] >= 3

\* C15: lookupCertificate with a deadline shorter than one interval
\* (0 < timeoutMs < WAIT_BETWEEN_REQS_MS) issues at most one page fetch and
\* fails with LookupTimedOut.
C15_ShortDeadlineTimesOut ==
  (poll.capped /\ poll.iterations = 0 /\ poll.pc # "idle") =>
    /\ calls["listCertificates"] <= 1
    /\ PollDone(poll) => poll.res = LookupRejected(LOOKUP_TIMED_OUT)

(***************************************************************************)
(* Claims about the change batches of a publish (SpecPublish)              *)
(***************************************************************************)
\* the validation entries of the described certificate, and those of them
\* in PENDING_VALIDATION status, in the certificate's order
Entries == certs[pub.certificateArn].DomainValidationOptions
PendingAt == {i \in DOMAIN Entries : Entries[i].ValidationStatus = PENDING_VALIDATION}
RECURSIVE PendingFrom(_)
PendingFrom(i) ==
  IF i > Len(Entries) THEN <<>>
  ELSE (IF i \in PendingAt THEN <<Entries[i]>> ELSE <<>>) \o PendingFrom(i + 1)
PendingEntries == PendingFrom(1)

\* the zone resolved for the k-th pending entry
ZoneOfEntry(k) == walks[k].res.id

RECURSIVE RecordsFrom(_, _)
\* the records of the pending entries from the k-th on that resolved to zone z
RecordsFrom(z, k) ==
  IF k > Len(PendingEntries) THEN <<>>
  ELSE (IF ZoneOfEntry(k) = z THEN <<PendingEntries[k].ResourceRecord>> ELSE <<>>)
         \o RecordsFrom(z, k + 1)

\* the record a change of a batch carries
RecordOf(change) ==
  [Name |-> change.ResourceRecordSet.Name,
   Type |-> change.ResourceRecordSet.Type,
   Value |-> change.ResourceRecordSet.ResourceRecords[1].Value]

BatchRecords(k) == [c \in DOMAIN batches[k].Changes |-> RecordOf(batches[k].Changes[c])]

\* C16: a publish submits exactly one change batch per distinct resolved
\* zone; each entry in PENDING_VALIDATION status gives exactly one record, in
\* the batch of the zone resolved for it and in no other; entries in another
\* status give none; within a batch the records keep the order of their
\* entries.
C16_OneBatchPerZone ==
  Submitted(pub) =>
    /\ Len(walks) = Len(PendingEntries)
    /\ \A k \in DOMAIN walks : walks[k].fqdn = PendingEntries[k].DomainName
    /\ pub.count = Cardinality({ZoneOfEntry(k) : k \in DOMAIN walks})
    /\ Len(batches) = pub.count
    /\ \A j, k \in OwnBatches(pub) :
          batches[j].HostedZoneId = batches[k].HostedZoneId => j = k
    /\ \A k \in OwnBatches(pub) :
          /\ BatchRecords(k) = RecordsFrom(batches[k].HostedZoneId, 1)
          /\ Len(batches[k].Changes) >= 1
          /\ \A c \in DOMAIN batches[k].Changes :
                batches[k].Changes[c].Action = pub.action

C16_Witness ==
  /\ Submitted(pub)
  /\ pub.count = 2
  /\ Len(PendingEntries) = 3
  /\ \E k \in OwnBatches(pub) :
        /\ Len(batches[k].Changes) = 2
        /\ batches[k].Changes[1].ResourceRecordSet.Name = <<"_">> \o FQDN3
        /\ batches[k].Changes[2].ResourceRecordSet.Name = <<"_">> \o FQDN1

\* the zones resolved for the pending entries; where each first appears
\* among them; its place in that order of discovery; the batch sent to it
EntryZones == {ZoneOfEntry(k) : k \in DOMAIN walks}
FirstAppearance(z) ==
  CHOOSE k \in DOMAIN walks :
    /\ ZoneOfEntry(k) = z
    /\ \A j \in DOMAIN walks : ZoneOfEntry(j) = z => k <= j
DiscoveryRank(z) ==
  Cardinality({y \in EntryZones : FirstAppearance(y) <= FirstAppearance(z)})
BatchOfZone(z) == CHOOSE k \in OwnBatches(pub) : batches[k].HostedZoneId = z

\* C17: the list a publish returns has one element per zone, in the order in
\* which the zones first appear among the pending entries, not one per
\* record: the element at a zone's place is the change id of that zone's
\* batch (null for a DELETE batch that was rejected).
C17_ResultInDiscoveryOrder ==
  pub.pc = "returned" =>
    /\ Len(pub.res.ids) = Cardinality(EntryZones)
    /\ \A z \in EntryZones :
          pub.res.ids[DiscoveryRank(z)] =
            IF batches[BatchOfZone(z)].status = "ok" THEN ChangeId(BatchOfZone(z))
            ELSE Null

C17_Witness ==
  /\ pub.pc = "returned"
  /\ Len(walks) = 3
  /\ ZoneOfEntry(1) = ZoneIdOf(ZoneName1)
  /\ ZoneOfEntry(2) = ZoneIdOf(ZoneName2)
  /\ ZoneOfEntry(3) = ZoneIdOf(ZoneName1)
  /\ pub.res.ids = <<ChangeId(BatchOfZone(ZoneIdOf(ZoneName1))),
                     ChangeId(BatchOfZone(ZoneIdOf(ZoneName2)))>>

(***************************************************************************)
(* Claims about an Update event (SpecHandler)                              *)
(***************************************************************************)
UpdateEvent == hnd.event.RequestType = UPDATE_REQUEST
BatchAction(k) == batches[k].Changes[1].Action
DeleteBatches == {k \in DOMAIN batches : BatchAction(k) = DELETE}
UpsertBatches == {k \in DOMAIN batches : BatchAction(k) = UPSERT}
InFlight == {k \in DOMAIN batches : batches[k].status = "inflight"}
RECURSIVE IdsFrom(_)
\* the change ids of the UPSERT batches from the k-th batch on, in order
IdsFrom(k) ==
  IF k > Len(batches) THEN <<>>
  ELSE (IF k \in UpsertBatches THEN <<ChangeId(k)>> ELSE <<>>) \o IdsFrom(k + 1)
SucceededUpdate == UpdateEvent /\ Answered /\ hnd.response.kind = "success"

\* C18: on an Update event every DELETE change batch for the old resource
\* has settled when an UPSERT change batch for the new resource is
\* submitted, and no two change batches in flight are for the same zone; a
\* success response carries the new resource's id, the change ids of the
\* UPSERT and those of the DELETE.
C18_DeleteSettledBeforeUpsert ==
  UpdateEvent =>
    /\ UpsertBatches # {} => DeleteBatches \cap InFlight = {}
    /\ \A j, k \in UpsertBatches \cup DeleteBatches :
          (BatchAction(j) = DELETE /\ BatchAction(k) = UPSERT) => j < k
    /\ \A j, k \in InFlight :
          batches[j].HostedZoneId = batches[k].HostedZoneId => j = k
    /\ (SucceededUpdate /\ hnd.kind = "acm") =>
          /\ hnd.response.id = ARN1
          /\ hnd.response.data.changeIds = IdsFrom(1)
          /\ Len(hnd.response.data.changeIds) >= 1
          /\ Len(hnd.response.data.oldChangeIds) = Cardinality(DeleteBatches)
          /\ \A i \in DOMAIN hnd.response.data.oldChangeIds :
                hnd.response.data.oldChangeIds[i] =
                  IF batches[i].status = "ok" THEN ChangeId(i) ELSE Null
    /\ (SucceededUpdate /\ hnd.kind = "ses") =>
          /\ StripDot(hnd.response.id) = ZoneName1
          /\ <<hnd.response.data.newChangeId>> = IdsFrom(1)
          /\ DeleteBatches = {1}
          /\ hnd.response.data.oldChangeId = ChangeId(1)

C18_Witness ==
  /\ SucceededUpdate /\ hnd.kind = "acm"
  /\ \E j \in DeleteBatches, k \in UpsertBatches :
        batches[j].HostedZoneId = batches[k].HostedZoneId
  /\ Len(hnd.response.data.changeIds) = 2
  /\ hnd.response.data.oldChangeIds = <<ChangeId(1)>>

\* the provider has rejected a DELETE change batch for the old resource
OldDeleteRejected == \E k \in DeleteBatches : batches[k].status = "rejected"
\* the publish for the new resource has been started
UpsertStarted == IF hnd.kind = "acm" THEN pub.action = UPSERT ELSE sesv.action = UPSERT
\* ... and has gone through
UpsertDone ==
  IF hnd.kind = "acm" THEN pub.action = UPSERT /\ pub.pc = "returned"
  ELSE sesv.action = UPSERT /\ sesv.pc = "returned"

\* C19: on an Update event the DELETE of the old resource's records is
\* best-effort in both handlers: when the provider rejects the DELETE change
\* batch, the handler still goes on to publish the UPSERT for the new
\* resource, and reports success when that publish goes through.
C19_OldDeleteBestEffort ==
  (UpdateEvent /\ OldDeleteRejected /\ Answered) =>
    /\ UpsertStarted
    /\ UpsertDone => hnd.response.kind = "success"
    /\ hnd.response.err # CHANGE_REJECTED \/ UpsertBatches # {}

(***************************************************************************)
(* Claims about a Delete event (SpecHandler, SpecPackaged)                 *)
(***************************************************************************)
SucceededDelete ==
  hnd.event.RequestType = DELETE_REQUEST /\ Answered /\ hnd.response.kind = "success"

\* C20: a Delete event that is reported as success reports the event's own
\* PhysicalResourceId, unchanged, as the physical resource id, and never an
\* id obtained from a lookup.
C20_DeleteKeepsPhysicalId ==
  SucceededDelete => hnd.response.id = hnd.event.PhysicalResourceId

(***************************************************************************)
(* Claims about the certificate handler's Create (SpecHandler)             *)
(***************************************************************************)
CertificateEvent(type) == hnd.kind = "acm" /\ hnd.event.RequestType = type
SucceededCreate ==
  CertificateEvent(CREATE_REQUEST) /\ Answered /\ hnd.response.kind = "success"
ZoneCalls ==
  TotalCalls("listHostedZonesByName") + TotalCalls("testDNSAnswer")
    + TotalCalls("describeCertificate") + TotalCalls("changeResourceRecordSets")
ListedArn(fqdn) == Find(poll.certs, fqdn)[1].CertificateArn

\* C21: a Create event that succeeds reports the ARN the certificate lookup
\* found for ResourceProperties.CertificateFQDN as physical resource id and
\* the change ids of the UPSERT batches, one per zone, as data; no zone
\* resolution and no change batch is issued before the lookup has completed.
C21_CreateReportsLookedUpArn ==
  /\ SucceededCreate =>
       /\ poll.pc = "returned"
       /\ poll.domainName = hnd.event.ResourceProperties.CertificateFQDN
       /\ hnd.response.id = ListedArn(hnd.event.ResourceProperties.CertificateFQDN)
       /\ DOMAIN batches = UpsertBatches
       /\ \A j, k \in DOMAIN batches :
            batches[j].HostedZoneId = batches[k].HostedZoneId => j = k
       /\ {batches[k].HostedZoneId : k \in DOMAIN batches} = EntryZones
       /\ ~hnd.response.data.isNull
       /\ hnd.response.data.changeIds = [k \in DOMAIN batches |-> ChangeId(k)]
  /\ (CertificateEvent(CREATE_REQUEST) /\ ZoneCalls > 0) => poll.pc = "returned"

C21_Witness ==
  /\ SucceededCreate
  /\ Len(hnd.response.data.changeIds) = 2
  /\ hnd.event.PhysicalResourceId # hnd.response.id

(***************************************************************************)
(* Claims about an unknown request type (SpecHandler)                      *)
(***************************************************************************)
UnknownRequestType ==
  hnd.event.RequestType \notin {CREATE_REQUEST, UPDATE_REQUEST, DELETE_REQUEST}

\* C22: an event whose RequestType is not Create, Update or Delete fails
\* immediately with the invalid-request error: no provider call is ever
\* issued for it, and the answer is failure with that error.
C22_UnknownTypeFailsImmediately ==
  UnknownRequestType =>
    /\ NoProviderCall
    /\ Answered => /\ hnd.response.kind = "failure"
                   /\ hnd.response.err = INVALID_REQUEST

(***************************************************************************)
(* Claims about re-invocation (SpecReinvoke)                               *)
(***************************************************************************)
Reinvoked == hnd.invocation = 2 /\ Answered
SameOutcome ==
  /\ hnd.response.kind = hnd.firstResponse.kind
  /\ hnd.response.id = hnd.firstResponse.id
  /\ hnd.response.err = hnd.firstResponse.err

\* C23: handling the same event twice in sequence, with unchanged provider
\* answers to the lookups, gives the same reported outcome the second time
\* and leaves the published record sets as they were after the first
\* invocation.
C23_IdempotentUnderReinvocation ==
  Reinvoked =>
    /\ SameOutcome
    /\ RecordSetsAfter(Len(batches)) = RecordSetsAfter(hnd.firstBatches)

(***************************************************************************)
(* Claims about the zone a record is published to (SpecHandler)            *)
(***************************************************************************)
\* the (zone, name) pairs the resolver has returned: exact zone match and an
\* empty NS answer for the name in that zone
VerifiedPairs ==
  {<<walks[i].res.id, walks[i].normalizedFQDN>> :
     i \in {j \in DOMAIN walks : walks[j].pc = "returned"}}
\* the batches of the publishCertValidationDNS / verifyDomain call at hand
CurrentBatches ==
  IF hnd.kind = "acm" THEN (IF pub.count > 0 THEN OwnBatches(pub) ELSE {})
  ELSE IF sesv.batch > 0 THEN {sesv.batch} ELSE {}
RecordNames(k) ==
  {StripDot(batches[k].Changes[c].ResourceRecordSet.Name) : c \in DOMAIN batches[k].Changes}

\* C24: each record submitted in a change batch goes to a zone the resolver
\* has verified to be authoritative for the record's own name (exact zone
\* match and NS-delegation test on the record name).
C24_RecordsGoToVerifiedZone ==
  \A k \in CurrentBatches : \A n \in RecordNames(k) :
    <<batches[k].HostedZoneId, n>> \in VerifiedPairs

(***************************************************************************)
(* Claims about the reporting of failures (SpecHandler)                    *)
(***************************************************************************)
Surfacing ==
  \/ hnd.event.RequestType \in {CREATE_REQUEST, UPDATE_REQUEST}
  \/ /\ hnd.event.RequestType = DELETE_REQUEST
     /\ hnd.event.PhysicalResourceId # DEFAULT_PHYSICAL_RESOURCE_ID
ReportsFailure(err) == hnd.response.kind = "failure" /\ hnd.response.err = err
UpsertRejected ==
  \E k \in UpsertBatches : k \in CurrentBatches /\ batches[k].status = "rejected"

\* C25: for Create and Update events, and Delete events with an assigned
\* physical id, a failed certificate lookup, certificate description, zone
\* resolution or UPSERT change batch is answered with failure carrying the
\* originating error, and success is answered only when none of them failed.
C25_FailuresSurface ==
  (Surfacing /\ Answered) =>
    /\ hnd.kind = "acm" =>
         /\ poll.pc = "thrown" => ReportsFailure(poll.res.err)
         /\ pub.pc = "thrown" => ReportsFailure(pub.res.err)
         /\ UpsertRejected => ReportsFailure(CHANGE_REJECTED)
         /\ hnd.response.kind = "success" => poll.pc = "returned" /\ pub.pc = "returned"
    /\ hnd.kind = "ses" =>
         /\ sesv.pc = "thrown" => ReportsFailure(sesv.res.err)
         /\ UpsertRejected => ReportsFailure(CHANGE_REJECTED)
         /\ hnd.response.kind = "success" => sesv.pc = "returned"

C25_Witness ==
  /\ Surfacing /\ Answered /\ hnd.kind = "acm"
  /\ hnd.event.RequestType = UPDATE_REQUEST
  /\ UpsertRejected
  /\ ReportsFailure(CHANGE_REJECTED)

(***************************************************************************)
(* Claims about certificates ACM has not issued (SpecHandler)              *)
(***************************************************************************)
\* publishCertValidationDNS has described a certificate of another type
ForeignCertificateDescribed ==
  /\ hnd.kind = "acm"
  /\ pub.pc \notin {"idle", "describe"}
  /\ DescribeCertificate(pub.certificateArn).ok
  /\ DescribeCertificate(pub.certificateArn).Type # AMAZON_ISSUED_CERT_TYPE
\* the publish call at hand is the first of the invocation
FirstPublish == hnd.event.RequestType # UPDATE_REQUEST \/ pub.action = DELETE
ZoneLookups == TotalCalls("listHostedZonesByName") + TotalCalls("testDNSAnswer")

\* C26: publishCertValidationDNS on a certificate whose type is not
\* AMAZON_ISSUED fails with the invalid-certificate error before any zone
\* lookup or change batch is issued, for UPSERT and DELETE alike, and a
\* Create event for such a certificate is answered with failure.
C26_ForeignCertificateRefused ==
  ForeignCertificateDescribed =>
    /\ pub.pc = "thrown"
    /\ pub.res.err = ERR_INVALID_CERTIFICATE
    /\ pub.count = 0
    /\ FirstPublish => ZoneLookups = 0 /\ batches = <<>>
    /\ (hnd.event.RequestType = CREATE_REQUEST /\ Answered)
         => ReportsFailure(ERR_INVALID_CERTIFICATE)

C26_Witness ==
  /\ ForeignCertificateDescribed
  /\ hnd.event.RequestType = CREATE_REQUEST
  /\ pub.action = UPSERT
  /\ Answered

(***************************************************************************)
(* Claims about the records verifyDomain publishes (SpecHandler)           *)
(***************************************************************************)
EmailEvent(type) == hnd.kind = "ses" /\ hnd.event.RequestType = type
VerifySubmittedBatch == hnd.kind = "ses" /\ sesv.batch > 0
Quoted(token) == <<"\"">> \o token \o <<"\"">>
\* the domain the call at hand is for: the zone's name as Route53 gives it
\* for an id, the name as given otherwise
DomainAtHand ==
  IF Len(Split(sesv.hostedZoneIdOrName)) = 1 THEN HostedZoneName(sesv.hostedZoneIdOrName)
  ELSE sesv.hostedZoneIdOrName
ZoneAtHand ==
  IF Len(Split(sesv.hostedZoneIdOrName)) = 1 THEN sesv.hostedZoneIdOrName
  ELSE GetZoneIdByName(sesv.hostedZoneIdOrName).id
ExpectedRecord(i) ==
  IF i = 1
    THEN [Name |-> <<"_amazonses", ".">> \o DomainAtHand, Type |-> "TXT",
          ResourceRecords |-> <<[Value |-> Quoted(VerificationToken)]>>, TTL |-> 60]
  ELSE [Name |-> DkimTokens[i - 1] \o <<".", "_domainkey", ".">> \o DomainAtHand,
        Type |-> "CNAME",
        ResourceRecords |-> <<[Value |-> DkimTokens[i - 1] \o <<".", "dkim.amazonses.com">>]>>,
        TTL |-> 60]
BatchesOfCall == {k \in DOMAIN batches : k >= sesv.batch}

TwinEntries ==
  {i \in DOMAIN poll.certs : StripDot(poll.certs[i].DomainName) = StripDot(poll.domainName)}
FirstTwin == CHOOSE i \in TwinEntries : \A j \in TwinEntries : i <= j

\* C28: the certificate lookup treats a trailing separator as absent:
\* lookupCertificate(d + ".") returns the certificate listed under d, as
\* lookupCertificate(d) does.
C28_LookupIgnoresTrailingSeparator ==
  (ListingComplete /\ TwinEntries # {}) =>
     /\ poll.pc = "returned"
     /\ poll.res.arn = poll.certs[FirstTwin].CertificateArn

(***************************************************************************)
(* Claims about the join barriers (SpecHandler)                            *)
(***************************************************************************)
LookupsOf(state) == {i \in DOMAIN walks : walks[i].pc = state}
PublishSubmitted == hnd.kind = "acm" /\ pub.count > 0

\* C29: publishCertValidationDNS submits no change batch until every zone
\* lookup it started has succeeded, in whatever order the lookups proceed,
\* and none at all when a lookup has failed; verifyDomain submits its batch
\* only after the identity call and the signing-key call have succeeded.
C29_JoinBeforePublish ==
  /\ PublishSubmitted => LookupsOf("returned") = DOMAIN walks
  /\ (hnd.kind = "acm" /\ pub.pc # "describe" /\ LookupsOf("thrown") # {}) =>
       pub.count = 0
  /\ VerifySubmittedBatch => sesv.identity = "ok" /\ sesv.dkim = "ok"

\* two lookups have run interleaved, and the batches went out after both
C29_Witness ==
  /\ PublishSubmitted
  /\ Len(walks) = 2
  /\ \A i \in DOMAIN walks : Len(walks[i].tested) >= 1
  /\ walks[1].res.id # walks[2].res.id
  /\ pub.count = 2

(***************************************************************************)
(* Claims about the pages of one polling iteration (SpecLookup)            *)
(***************************************************************************)
Fetching == poll.pc = "fetch"
\* the step ends a listing: no continuation token came with the page
ListingEnds == poll'.listings = poll.listings + 1

\* C30: within one polling iteration the listing starts without a
\* continuation token and follows the token until none is returned; every
\* page is added to the accumulator before the name is looked for, a match on
\* any page is found in that same iteration, and every iteration starts
\* again from the first page with an empty accumulator.
C30_PagesAccumulateWithinIteration ==
  [][ (Fetching /\ poll' # poll) =>
        /\ poll.pages = 0 => poll'.certs \in LookupPages
        /\ poll.pages > 0 => \E page \in LookupPages : poll'.certs = poll.certs \o page
        /\ poll'.pc = "returned" => ListingEnds
        /\ (ListingEnds /\ NamedEntries' # {}) =>
              /\ poll'.pc = "returned"
              /\ poll'.iteration = poll.iteration
        /\ (poll'.pc = "fetch" /\ poll'.iteration = poll.iteration) =>
              poll'.pages = poll.pages + 1
        /\ poll'.iteration > poll.iteration =>
              /\ ListingEnds
              /\ poll'.pages = 0 ]_vars

\* in the second iteration the match is on the second page
C30_Witness ==
  /\ poll.pc = "returned"
  /\ poll.iteration = 2 /\ poll.pages = 2
  /\ calls["listCertificates"] = 4
  /\ Len(poll.certs) = 2
  /\ poll.certs[1].DomainName # poll.domainName
  /\ poll.certs[2].DomainName = poll.domainName

(***************************************************************************)
(* Claims about the answer to every event (SpecHandler)                    *)
(***************************************************************************)
\* the invocation has ended: its promise has resolved or rejected
Terminated == hnd.pc \in {"done", "crashed"}

\* C31: every handler invocation that terminates has reported exactly one
\* outcome, sendSuccess or sendFailure, also for an event with an unknown
\* RequestType or without ResourceProperties or OldResourceProperties, in
\* both handlers.
C31_EveryInvocationAnswers ==
  Terminated => hnd.response.kind \in {"success", "failure"}

(***************************************************************************)
(* Claims about a failed Update (SpecHandler)                              *)
(***************************************************************************)
FailedUpdate == UpdateEvent /\ Answered /\ hnd.response.kind = "failure"
AppliedDeletes == {k \in DeleteBatches : batches[k].status = "ok"}

\* C32: an Update event that is reported as failure leaves the old
\* resource's published records in place: no DELETE change batch for the old
\* resource has been applied at the provider.
C32_FailedUpdateKeepsOldRecords ==
  FailedUpdate => AppliedDeletes = {}

(***************************************************************************)
(* Claims about a failed publish (SpecPublish)                             *)
(***************************************************************************)
\* publishCertValidationDNS(cert, UPSERT) has thrown a batch's rejection
FailedUpsertPublish ==
  pub.action = UPSERT /\ pub.pc = "thrown" /\ OwnRejected(pub) # {}

\* C33: when publishCertValidationDNS(cert, UPSERT) fails because one zone's
\* change batch is rejected, the call has submitted no change batch to any
\* other zone, so every zone's records are unchanged.
C33_FailedUpsertLeavesNoBatch ==
  FailedUpsertPublish => \A r \in OwnRejected(pub) : OwnBatches(pub) = {r}

(***************************************************************************)
(* Claims about cleanup with an unresolvable name (SpecPublish)            *)
(***************************************************************************)
UnresolvedEntries == {i \in DOMAIN walks : walks[i].pc = "thrown"}
ResolvedEntries == {i \in DOMAIN walks : walks[i].pc = "returned"}
\* a DELETE publish has ended with the zone of one entry not resolved
DeleteWithUnresolved ==
  pub.action = DELETE /\ pub.pc \in {"returned", "thrown"} /\ UnresolvedEntries # {}

\* C34: on a DELETE publish, failure to resolve the zone of one pending
\* validation entry does not keep the DELETE batches of the other entries'
\* zones from being submitted, and the call does not raise.
C34_DeleteNotBlockedByUnresolved ==
  DeleteWithUnresolved =>
    /\ pub.pc = "returned"
    /\ \A i \in ResolvedEntries :
         \E k \in OwnBatches(pub) : batches[k].HostedZoneId = ZoneOfEntry(i)

(***************************************************************************)
(* Claims about the time budget of the certificate handler (SpecHandler)   *)
(***************************************************************************)
\* a lookupCertificate of the certificate handler is between two listings
Polling == hnd.kind = "acm" /\ poll.pc = "fetch"

\* C35: for every remaining-time budget, also at or below the safety margin,
\* the certificate handler's polling terminates: a lookup that is still
\* running has a finite iteration budget and its iteration count is within
\* it, so finitely many listings are issued even when none ever matches.
C35_PollingTerminates ==
  Polling => poll.capped /\ poll.iteration <= poll.iterations

\* the lookup of the new certificate has returned and update has gone on to
\* the old certificate: that first lookup has run one iteration at least
NewLookupReturned == hnd.pc \in {"lookupOld", "publishOld"}
\* a lower bound of the polling iterations started in this invocation
IterationsStarted == (IF NewLookupReturned THEN 1 ELSE 0) + poll.iteration
\* Update with a budget of one iteration or more, and more iterations started
\* than the budget (a reachable state)
UpdateOverBudget ==
  /\ UpdateEvent /\ hnd.kind = "acm" /\ hnd.remaining > 4000
  /\ IterationsStarted > Iterations(LambdaTimeout(hnd))

\* C36: in one invocation of the certificate handler the polling iterations
\* summed over all lookupCertificate calls are at most
\* floor((remainingTime - 3000) / 1000), for Update too, which looks up both
\* the new and the old certificate.
C36_IterationsWithinBudget ==
  (hnd.kind = "acm" /\ IterationsStarted > 0) =>
    IterationsStarted <= Iterations(LambdaTimeout(hnd))

(***************************************************************************)
(* Claims about the certificate an Update cleans up (SpecUpdate)           *)
(***************************************************************************)
\* the ARNs the DELETE publish of this invocation was called with: each
\* batch carries its call's certificateArn as Comment
DeletedFor == {batches[k].Comment : k \in DeleteBatches}

\* C37: on an Update event the certificate whose validation records are
\* deleted is the one named by the event's PhysicalResourceId: the
\* oldCertificateArn reported in the response equals the ARN passed to the
\* DELETE publish.
C37_ReportedOldArnIsDeleted ==
  (CertificateEvent(UPDATE_REQUEST) /\ SucceededUpdate) =>
    /\ hnd.response.data.oldCertificateArn = hnd.oldCertificateArn
    /\ DeletedFor \subseteq {hnd.response.data.oldCertificateArn}

(***************************************************************************)
(* Claims about Delete of an issued certificate (SpecHandler)              *)
(***************************************************************************)
\* no listing of the lookup held the certificate in pending-validation state
NoLongerPending == poll.pc = "thrown" /\ poll.res.err = LOOKUP_TIMED_OUT
\* a Delete event for a resource that Create gave a physical id of its own
DeleteOfCreated ==
  /\ CertificateEvent(DELETE_REQUEST)
  /\ hnd.event.PhysicalResourceId # DEFAULT_PHYSICAL_RESOURCE_ID

\* C38: a Delete event with a non-sentinel physical id is reported as
\* success also when its certificate is no longer listed in
\* pending-validation state at the time of the Delete.
C38_DeleteOfIssuedSucceeds ==
  (DeleteOfCreated /\ NoLongerPending /\ Answered) => hnd.response.kind = "success"

====
